---- MODULE Spec2Model ----
(***************************************************************************)
(* Model of the email discovery engine of src/email-finder.py:             *)
(*   - RateLimiter.__enter__ with a discrete clock      (SpecRL)           *)
(*   - EmailFinder.discover_email and the stages it calls, called one      *)
(*     after another (Spec) or by overlapping workers   (SpecMT)           *)
(*   - verify_email called on its own                   (SpecVE)           *)
(*   - generate_email_patterns called on its own        (SpecFn)           *)
(*   - process_csv: batches, queue, worker threads      (SpecCSV)          *)
(* Strings are sequences of one-character strings, so that lower(),        *)
(* strip(), re.sub() and the f-string patterns are computed, not assumed.  *)
(***************************************************************************)
EXTENDS Integers, Sequences, FiniteSets, TLC

\* ------------------------------------------------------------------ bounds
\* threads sharing one RateLimiter instance in SpecRL
NThreads == 2
\* __enter__ calls started in SpecRL
MaxAcq == 3
\* wall-clock value (seconds) at which SpecRL starts; last_call_time starts at 0.0
StartTime == 7
\* last clock value SpecRL lets the clock reach
MaxTime == 21

\* ---------------------------------------------------------------- strings
LowerChars == <<"a","b","c","d","e","f","g","h","i","j","k","l","m",
                "n","o","p","q","r","s","t","u","v","w","x","y","z">>
UpperChars == <<"A","B","C","D","E","F","G","H","I","J","K","L","M",
                "N","O","P","Q","R","S","T","U","V","W","X","Y","Z">>
DigitChars == <<"0","1","2","3","4","5","6","7","8","9">>

Range(s) == { s[i] : i \in 1..Len(s) }

IsLowerCh(c) == c \in Range(LowerChars)
IsUpperCh(c) == c \in Range(UpperChars)
IsDigitCh(c) == c \in Range(DigitChars)
IsSpaceCh(c) == c \in {" "}

\* str.lower() on one character
LowerCh(c) ==
    IF IsUpperCh(c)
    THEN LowerChars[CHOOSE i \in 1..Len(UpperChars) : UpperChars[i] = c]
    ELSE c

\* str.lower()
Lower(s) == [ i \in 1..Len(s) |-> LowerCh(s[i]) ]

RECURSIVE LStrip(_)
LStrip(s) == IF s # <<>> /\ IsSpaceCh(Head(s)) THEN LStrip(Tail(s)) ELSE s

RECURSIVE RStrip(_)
RStrip(s) ==
    IF s # <<>> /\ IsSpaceCh(s[Len(s)]) THEN RStrip(SubSeq(s, 1, Len(s) - 1)) ELSE s

\* str.strip()
Strip(s) == RStrip(LStrip(s))

\* re.sub(r'[^a-z0-9]', '', s)
CleanAlnum(s) == SelectSeq(s, LAMBDA c : IsLowerCh(c) \/ IsDigitCh(c))

\* s[0] if s else ''
Initial(s) == IF s # <<>> THEN <<s[1]>> ELSE <<>>

\* `sub in s` for strings
Contains(s, sub) ==
    \E i \in 0..(Len(s) - Len(sub)) : SubSeq(s, i + 1, i + Len(sub)) = sub

\* s.endswith(suf)
EndsWith(s, suf) ==
    /\ Len(suf) <= Len(s)
    /\ SubSeq(s, Len(s) - Len(suf) + 1, Len(s)) = suf

\* s.replace(old, '') for a non-empty old: every non-overlapping occurrence,
\* scanning from the left
RECURSIVE Remove(_, _)
Remove(s, old) ==
    IF Len(s) < Len(old) THEN s
    ELSE IF SubSeq(s, 1, Len(old)) = old
         THEN Remove(SubSeq(s, Len(old) + 1, Len(s)), old)
         ELSE <<s[1]>> \o Remove(Tail(s), old)

\* position of the first c in s, 0 when there is none
FirstIndex(s, c) ==
    IF \E i \in 1..Len(s) : s[i] = c
    THEN CHOOSE i \in 1..Len(s) : s[i] = c /\ \A j \in 1..(i - 1) : s[j] # c
    ELSE 0

\* s.split(c)[0]
SplitHead(s, c) ==
    IF FirstIndex(s, c) = 0 THEN s ELSE SubSeq(s, 1, FirstIndex(s, c) - 1)

\* s.split(c)[1], for an s that contains c
SplitSecond(s, c) ==
    SplitHead(SubSeq(s, FirstIndex(s, c) + 1, Len(s)), c)

AT == <<"@">>
DOT == <<".">>

\* ------------------------------------------------- generate_email_patterns
\* mutant: the list literal with first@ before f+last@
generate_email_patterns_Reordered(first_name, last_name, domain) ==
    IF domain = <<>> \/ first_name = <<>> \/ last_name = <<>> THEN <<>>
    ELSE LET first0 == Strip(Lower(first_name))
             last0 == Strip(Lower(last_name))
             f_initial == Initial(first0)
             l_initial == Initial(last0)
             first == CleanAlnum(first0)
             last == CleanAlnum(last0)
             at == AT \o domain
         IN << first \o DOT \o last \o at,
               first \o last \o at,
               first \o at,
               f_initial \o last \o at,
               first \o l_initial \o at,
               first \o <<"-">> \o last \o at,
               f_initial \o DOT \o last \o at,
               last \o DOT \o first \o at,
               first \o <<"_">> \o last \o at,
               last \o first \o at,
               last \o at >>

\* the 11 f-strings, in the order of the list literal
generate_email_patterns(first_name, last_name, domain) ==
    IF domain = <<>> \/ first_name = <<>> \/ last_name = <<>> THEN <<>>
    ELSE LET first0 == Strip(Lower(first_name))
             last0 == Strip(Lower(last_name))
             f_initial == Initial(first0)
             l_initial == Initial(last0)
             first == CleanAlnum(first0)
             last == CleanAlnum(last0)
             at == AT \o domain
         IN << first \o DOT \o last \o at,
               first \o last \o at,
               f_initial \o last \o at,
               first \o at,
               first \o l_initial \o at,
               first \o <<"-">> \o last \o at,
               f_initial \o DOT \o last \o at,
               last \o DOT \o first \o at,
               first \o <<"_">> \o last \o at,
               last \o first \o at,
               last \o at >>

\* ------------------------------------------------------ verify_email syntax
IsLetterCh(c) == IsLowerCh(c) \/ IsUpperCh(c)
\* [a-zA-Z0-9._%+-]
IsLocalCh(c) == IsLetterCh(c) \/ IsDigitCh(c) \/ c \in {".", "_", "%", "+", "-"}
\* [a-zA-Z0-9.-]
IsHostCh(c) == IsLetterCh(c) \/ IsDigitCh(c) \/ c \in {".", "-"}

\* re.match(r'^[a-zA-Z0-9._%+-]+@[a-zA-Z0-9.-]+\.[a-zA-Z]{2,}$', email)
SyntaxOk(email) ==
    \E i \in 2..Len(email) :
        /\ email[i] = "@"
        /\ \A k \in 1..(i - 1) : IsLocalCh(email[k])
        /\ \E j \in (i + 2)..(Len(email) - 2) :
              /\ email[j] = "."
              /\ \A k \in (i + 1)..(j - 1) : IsHostCh(email[k])
              /\ \A k \in (j + 1)..Len(email) : IsLetterCh(email[k])

\* ------------------------------------------------- _is_likely_persons_email
name_indicators(first_lower, last_lower) ==
    << first_lower,
       last_lower,
       <<first_lower[1]>> \o last_lower,
       first_lower \o <<last_lower[1]>>,
       <<first_lower[1]>> \o DOT \o last_lower,
       first_lower \o DOT \o last_lower,
       first_lower \o <<"_">> \o last_lower,
       last_lower \o DOT \o first_lower,
       last_lower \o <<first_lower[1]>> >>

\* first_name and last_name are non-empty here (discover_email has validated them)
is_likely_persons_email(email, first_name, last_name, domain) ==
    IF email = <<>> \/ ~Contains(email, AT) THEN FALSE
    ELSE LET email_lower == Lower(email)
             username == SplitHead(email_lower, "@")
             ind == name_indicators(Lower(first_name), Lower(last_name))
         IN IF domain # <<>> /\ ~EndsWith(email_lower, AT \o domain) THEN FALSE
            ELSE \E k \in 1..Len(ind) : Contains(username, ind[k])

\* ------------------------------------------------------- _similarity_score
MinOf(a, b) == IF a < b THEN a ELSE b

\* SequenceMatcher.find_longest_match: the longest common block, of those the one
\* starting earliest in a, of those the one starting earliest in b; <<0, 0, 0>>
\* when the strings share no character
LongestMatch(a, b) ==
    LET blocks == { m \in (1..Len(a)) \X (1..Len(b)) \X (1..MinOf(Len(a), Len(b))) :
                      /\ m[1] + m[3] - 1 <= Len(a)
                      /\ m[2] + m[3] - 1 <= Len(b)
                      /\ SubSeq(a, m[1], m[1] + m[3] - 1) = SubSeq(b, m[2], m[2] + m[3] - 1) }
    IN IF blocks = {} THEN <<0, 0, 0>>
       ELSE CHOOSE m \in blocks :
              \A o \in blocks :
                 \/ o[3] < m[3]
                 \/ o[3] = m[3] /\ o[1] > m[1]
                 \/ o[3] = m[3] /\ o[1] = m[1] /\ o[2] >= m[2]

\* the number of matched characters SequenceMatcher.get_matching_blocks finds
RECURSIVE Matches(_, _)
Matches(a, b) ==
    IF a = <<>> \/ b = <<>> THEN 0
    ELSE LET m == LongestMatch(a, b)
         IN IF m[3] = 0 THEN 0
            ELSE m[3]
                 + Matches(SubSeq(a, 1, m[1] - 1), SubSeq(b, 1, m[2] - 1))
                 + Matches(SubSeq(a, m[1] + m[3], Len(a)), SubSeq(b, m[2] + m[3], Len(b)))

\* SequenceMatcher(None, str1, str2).ratio() > 0.6, ratio = 2.0 * M / T (1.0 when T = 0)
SimilarityAbove06(str1, str2) ==
    IF Len(str1) + Len(str2) = 0 THEN TRUE
    ELSE 10 * Matches(str1, str2) > 3 * (Len(str1) + Len(str2))

\* domain.split('.')
RECURSIVE SplitAll(_, _)
SplitAll(s, c) ==
    IF FirstIndex(s, c) = 0 THEN <<s>>
    ELSE <<SubSeq(s, 1, FirstIndex(s, c) - 1)>>
         \o SplitAll(SubSeq(s, FirstIndex(s, c) + 1, Len(s)), c)

is_likely_company_domain(domain, company_name) ==
    LET domain_parts == SplitAll(domain, ".")
    IN IF Len(domain_parts) >= 2
       THEN LET domain_name == domain_parts[1]
                clean_company == CleanAlnum(Lower(company_name))
            IN \/ Contains(clean_company, domain_name)
               \/ Contains(domain_name, clean_company)
               \/ SimilarityAbove06(domain_name, clean_company)
       ELSE FALSE

\* ----------------------------------------------------- get_company_domain
skip_domains ==
    { <<"l","i","n","k","e","d","i","n",".","c","o","m">>,
      <<"f","a","c","e","b","o","o","k",".","c","o","m">>,
      <<"t","w","i","t","t","e","r",".","c","o","m">>,
      <<"i","n","s","t","a","g","r","a","m",".","c","o","m">>,
      <<"y","o","u","t","u","b","e",".","c","o","m">>,
      <<"g","l","a","s","s","d","o","o","r",".","c","o","m">>,
      <<"w","i","k","i","p","e","d","i","a",".","o","r","g">>,
      <<"c","r","u","n","c","h","b","a","s","e",".","c","o","m">>,
      <<"b","l","o","o","m","b","e","r","g",".","c","o","m">>,
      <<"r","e","u","t","e","r","s",".","c","o","m">>,
      <<"y","a","h","o","o",".","c","o","m">>,
      <<"g","o","o","g","l","e",".","c","o","m">>,
      <<"b","i","n","g",".","c","o","m">>,
      <<"a","m","a","z","o","n",".","c","o","m">>,
      <<"i","n","d","e","e","d",".","c","o","m">>}

WWW == <<"w","w","w",".">>
DOTCOM == <<".","c","o","m">>

\* company_name.strip().lower(): the cache key
NormalizeCompany(company_name) == Lower(Strip(company_name))

\* the loop over results[:5]: netlocs is the netloc of each result href, in order
potential_domains(netlocs, company_name) ==
    LET top == SubSeq(netlocs, 1, MinOf(5, Len(netlocs)))
        keep(url) ==
            /\ url # <<>>
            /\ ~ \E sd \in skip_domains : Contains(Lower(url), sd)
            /\ is_likely_company_domain(Remove(Lower(url), WWW), company_name)
    IN [ i \in 1..Len(SelectSeq(top, keep)) |->
            Remove(Lower(SelectSeq(top, keep)[i]), WWW) ]

\* mutant: the guess keeps the characters outside [a-z0-9]
search_domain_NoClean(netlocs, company_name) ==
    IF potential_domains(netlocs, company_name) # <<>>
    THEN potential_domains(netlocs, company_name)[1]
    ELSE Lower(company_name) \o DOTCOM

\* what a completed search resolves to: the first surviving candidate, else the
\* pattern-based guess
search_domain(netlocs, company_name) ==
    IF potential_domains(netlocs, company_name) # <<>>
    THEN potential_domains(netlocs, company_name)[1]
    ELSE CleanAlnum(Lower(company_name)) \o DOTCOM

\* --------------------------------------------------------- _get_mx_record
\* sorted(mx_records, key=lambda x: x.preference)[0].exchange; answers are
\* <<preference, exchange>> in the order of the DNS answer (sorted is stable)
lowest_preference(mx_records) ==
    LET i == CHOOSE i \in 1..Len(mx_records) :
                \A j \in 1..Len(mx_records) :
                    \/ mx_records[j][1] > mx_records[i][1]
                    \/ mx_records[j][1] = mx_records[i][1] /\ j >= i
    IN mx_records[i][2]

\* ------------------------------------------------------------ RateLimiter
\* MAX_EMAIL_CHECKS_PER_MINUTE default
max_calls_per_minute == 10
\* self.min_interval = 60.0 / float(max_calls_per_minute), in seconds
min_interval == 60 \div max_calls_per_minute

Threads == 1..NThreads

VARIABLES
    now,             \* time.time(), in whole seconds
    last_call_time,  \* RateLimiter.last_call_time
    lock,            \* RateLimiter.lock: 0 free, else the thread inside `with self.lock`
    tpc,             \* thread -> "out" | "waiting" | "locked" | "timed"
    wake,            \* thread -> clock value at which its time.sleep returns
    slept,           \* thread -> whether its current __enter__ took the sleep branch
    started,         \* number of __enter__ calls started
    grants           \* history: <<thread, recorded timestamp>> of each permitted call

rlvars == <<now, last_call_time, lock, tpc, wake, slept, started, grants>>

RLInit ==
    /\ now = StartTime
    /\ last_call_time = 0
    /\ lock = 0
    /\ tpc = [t \in Threads |-> "out"]
    /\ wake = [t \in Threads |-> 0]
    /\ slept = [t \in Threads |-> FALSE]
    /\ started = 0
    /\ grants = <<>>

\* mutant: __enter__ without `with self.lock:`
LockFree_Always == TRUE

\* the guard of `with self.lock:` -- the lock is free
LockFree == lock = 0

\* __enter__ is called: the thread arrives at `with self.lock:`
RL_Call(t) ==
    /\ tpc[t] = "out"
    /\ started < MaxAcq
    /\ tpc' = [tpc EXCEPT ![t] = "waiting"]
    /\ started' = started + 1
    /\ UNCHANGED <<now, last_call_time, lock, wake, slept, grants>>

\* __enter__: `with self.lock:` acquired
RL_Lock(t) ==
    /\ tpc[t] = "waiting"
    /\ LockFree
    /\ lock' = t
    /\ tpc' = [tpc EXCEPT ![t] = "locked"]
    /\ UNCHANGED <<now, last_call_time, wake, slept, started, grants>>

\* mutant: __enter__ always sleeps a whole interval
WakeTime_WholeInterval(current_time, last) == current_time + min_interval

\* mutant: __enter__ without the time.sleep
WakeTime_NoSleep(current_time, last) == current_time

\* the clock value at which the caller may go on: current_time when enough time
\* has passed, else current_time + (min_interval - elapsed)
WakeTime(current_time, last) ==
    IF current_time - last < min_interval
    THEN current_time + (min_interval - (current_time - last))
    ELSE current_time

\* current_time = time.time(); elapsed = ...; the decision to sleep
RL_Read(t) ==
    /\ tpc[t] = "locked"
    /\ wake' = [wake EXCEPT ![t] = WakeTime(now, last_call_time)]
    /\ slept' = [slept EXCEPT ![t] = (now - last_call_time < min_interval)]
    /\ tpc' = [tpc EXCEPT ![t] = "timed"]
    /\ UNCHANGED <<now, last_call_time, lock, started, grants>>

\* time.sleep(sleep_time) has returned (at once when no sleep was needed);
\* self.last_call_time = time.time(); the lock is released
RL_Write(t) ==
    /\ tpc[t] = "timed"
    /\ now >= wake[t]
    /\ last_call_time' = now
    /\ grants' = Append(grants, <<t, now>>)
    /\ lock' = 0
    /\ tpc' = [tpc EXCEPT ![t] = "out"]
    /\ UNCHANGED <<now, wake, slept, started>>

\* the wall clock advances; past MaxTime it does so only up to the end of a
\* time.sleep that is under way
Tick ==
    /\ now < MaxTime \/ \E t \in Threads : tpc[t] = "timed" /\ now < wake[t]
    /\ now' = now + 1
    /\ UNCHANGED <<last_call_time, lock, tpc, wake, slept, started, grants>>

\* ------------------------------------------------------------ EmailFinder
\* workers calling discover_email on one EmailFinder instance
NWorkers == 2
\* discover_email calls started, all workers together
MaxCalls == 2

Workers == 1..NWorkers

\* Python None, for a string-valued slot
None == <<>>
\* result["method"] = None
NoMethod == "None"
\* mx_cache[domain] = None
NoMx == "none"

\* numbers are exact fractions <<numerator, denominator>>
Num(n) == <<n, 1>>
Times100(q) == <<q[1] * 100, q[2]>>
IsInteger(q) == q[1] % q[2] = 0
NumEq(q, n) == q[1] = n * q[2]
NumLe(q, n) == q[1] <= n * q[2]
NumGe(q, n) == q[1] >= n * q[2]

JOHN == <<"J","o","h","n">>
DOE == <<"D","o","e">>
ACME_INC == <<"A","c","m","e"," ","I","n","c">>
ACME_INC_PADDED == <<" ","A","C","M","E"," ","i","n","c"," ">>
acme_com == <<"a","c","m","e",".","c","o","m">>
acmeinc_com == <<"a","c","m","e","i","n","c",".","c","o","m">>

\* the (first_name, last_name, company_name) arguments the workers are given
BLANK == <<" "," ">>

Persons ==
    { [first |-> JOHN, last |-> DOE, company |-> ACME_INC],
      [first |-> JOHN, last |-> DOE, company |-> ACME_INC_PADDED],
      [first |-> BLANK, last |-> DOE, company |-> ACME_INC],
      [first |-> <<>>, last |-> DOE, company |-> ACME_INC] }

\* a server that accepts the connection and never answers: a call made with a
\* timeout raises when it expires (that is a response of kind "raise"), a call made
\* without one never returns
Unanswered == [kind |-> "silent"]

\* responses of the web search for "<company> official website": the request
\* raises, the server never answers, or the page parses to these result netlocs
DomainSearchResponses ==
    { [kind |-> "raise"], Unanswered,
      [kind |-> "ok", netlocs |-> <<>>],
      [kind |-> "ok", netlocs |-> << <<"w","w","w",".","l","i","n","k","e","d","i","n",".","c","o","m">>,
                                     <<"w","w","w",".","A","c","m","e",".","c","o","m">> >>] }

\* responses of the finder provider: the request or its parsing raises, the server
\* never answers, the payload has no email, or it has an email and a native score
HunterResponses ==
    { [kind |-> "raise"], Unanswered, [kind |-> "empty"] }
    \cup { [kind |-> "email",
            email |-> <<"j","d","@">> \o acme_com,
            score |-> sc] : sc \in { <<0, 1>>, <<87, 100>>, <<7, 8>>, <<1, 1>>, <<97, 1>> } }

\* responses of the validator provider: raises, never answers, or data.get("status")
ValidatorResponses == { [kind |-> "raise"], Unanswered, [kind |-> "status", status |-> 1],
                        [kind |-> "status", status |-> 0] }

\* DNS MX answers: the query raises, or returns these <<preference, exchange>> records
DnsResponses ==
    { [kind |-> "raise"],
      [kind |-> "ok", records |-> <<>>],
      [kind |-> "ok", records |-> << <<20, "mx2.mail.">>, <<10, "mx1.mail.">>, <<10, "mx3.mail.">> >>] }

\* the SMTP dialogue: it raises somewhere (connect to the exchanger and to the bare
\* domain, HELO, STARTTLS, MAIL, RCPT, QUIT; smtplib.SMTP(timeout=10) raises when
\* the server stays silent), or RCPT TO is answered with a code
SmtpResponses == { [kind |-> "raise"] }
                 \cup { [kind |-> "code", code |-> c] : c \in {250, 251, 550} }

\* public web search: the request raises, the server never answers, or these
\* email-shaped substrings are found in the result bodies, in page order
PublicSearchResponses ==
    { [kind |-> "raise"], Unanswered,
      [kind |-> "ok", emails |-> <<>>],
      [kind |-> "ok", emails |-> << <<"i","n","f","o","@">> \o acme_com,
                                    <<"j","o","h","n",".","d","o","e","@">> \o acme_com >>],
      [kind |-> "ok", emails |-> << <<"D","o","e","7","@">> \o acmeinc_com,
                                    <<"d","o","e","7","@">> \o acme_com >>] }

VARIABLES
    wk,                        \* worker -> the frame of its discover_email call
    domain_cache,              \* EmailFinder.domain_cache
    mx_cache,                  \* EmailFinder.mx_cache
    email_verification_cache,  \* EmailFinder.email_verification_cache
    hunter_api_key,            \* whether HUNTER_API_KEY is set
    email_validator_key,       \* whether EMAIL_VALIDATOR_KEY is set
    ncalls                     \* discover_email calls started

dvars == <<wk, domain_cache, mx_cache, email_verification_cache,
           hunter_api_key, email_validator_key, ncalls>>

VARIABLES
    fcall                      \* the last direct call of a method: its name, arguments, return value

VARIABLES
    main_pc,      \* process_csv's own thread: "off" | "start" | "failed" | "batch" | "join" | "done"
    batch_start,  \* first row (0-based) of the current batch
    batch_size,   \* the batch_size argument
    df_in,        \* the dataframe as read from input_file, with the email columns added
    df,           \* the dataframe: row -> its Email, Email Confidence, Email Method, Company Domain
    queue,        \* Queue of row indices of the current batch
    results,      \* the results dict of the current batch
    csv_lock,     \* threading.Lock of the current batch: 0 free, else the holding thread
    output_file,  \* the content of output_file, <<>> while it was never written
    th,           \* worker thread -> its position and locals
    invoked,      \* history: row -> number of discover_email calls made for it
    input_file,   \* the file at the input_file path: whether it exists, parses, and its columns
    num_threads,  \* the num_threads argument
    fail_run,     \* history: record-level failures in a row in the current batch
    scraper,      \* scraper_tool.process_csv: its position and locals
    connector     \* linkedin_connector.process_connections: its position and locals

cvars == <<main_pc, batch_start, batch_size, df_in, df, queue, results, csv_lock,
           output_file, th, invoked, input_file, num_threads, fail_run>>

\* the two other tools of the repository
xvars == <<scraper, connector>>

\* the state outside the engine's caches and discover_email frames
ovars == <<fcall, cvars, xvars>>

vars == <<now, last_call_time, lock, tpc, wake, slept, started, grants,
          wk, domain_cache, mx_cache, email_verification_cache,
          hunter_api_key, email_validator_key, ncalls,
          fcall,
          main_pc, batch_start, batch_size, df_in, df, queue, results, csv_lock,
          output_file, th, invoked, input_file, num_threads, fail_run,
          scraper, connector>>

\* the result dict discover_email starts from
EmptyResult == [email |-> None, confidence |-> Num(0), method |-> NoMethod, domain |-> None]

\* history of one call: permits taken, web searches for the domain, provider requests,
\* verify_email calls, public searches, and the outbound network calls made since
\* the last permit (blk)
ZeroCounts == [permits |-> 0, search |-> 0, api |-> 0, verify |-> 0, pub |-> 0, blk |-> 0]

\* no network call was made since the last permit
NoEvent == [op |-> "none", out |-> "none"]

\* a frame before any call
IdleFrame ==
    [pc |-> "idle", cont |-> "none", inp |-> [first |-> <<>>, last |-> <<>>, company |-> <<>>],
     result |-> EmptyResult, domain |-> None,
     idx |-> 0, attempted |-> <<>>, vsite |-> "none", vemail |-> None,
     qidx |-> 0, public_result |-> [email |-> None, confidence |-> Num(0)],
     provider |-> "none",
     \* history of this call
     stages |-> <<>>, verdicts |-> <<>>, pub_valid |-> "none", cnt |-> ZeroCounts,
     last |-> NoEvent]

Bump(l, f) == [l EXCEPT !.cnt[f] = @ + 1]

\* an outbound network call is started
Outbound(l) == Bump(l, "blk")

\* history: the network call `op` of this frame ended with `out`
Heard(l, op, out) == [l EXCEPT !.last = [op |-> op, out |-> out]]

\* requests.get(url, headers=headers) is given no timeout: when the server never
\* answers, the call does not return
Blocked(l) == [l EXCEPT !.pc = "blocked"]

\* `with self.rate_limiter:` is next, and then the step `cont`
Limited(l, cont) == [l EXCEPT !.pc = "rl_wait", !.cont = cont]

\* return result
Return(l) == [l EXCEPT !.pc = "done", !.cont = "none"]

email_patterns(l) == generate_email_patterns(l.inp.first, l.inp.last, l.domain)

\* mutant: the fallback sets the email and the confidence but no method
Fallback_NoMethod(l) ==
    IF l.attempted # <<>>
    THEN Return([l EXCEPT !.result.email = l.attempted[1],
                          !.result.confidence = Num(30),
                          !.stages = Append(@, "fallback")])
    ELSE Return(l)

\* mutant: the fallback takes the last attempted pattern
Fallback_Last(l) ==
    IF l.attempted # <<>>
    THEN Return([l EXCEPT !.result.email = l.attempted[Len(l.attempted)],
                          !.result.confidence = Num(30),
                          !.result.method = "unverified_pattern",
                          !.stages = Append(@, "fallback")])
    ELSE Return(l)

\* mutant: no fallback to the first attempted pattern
Fallback_GiveUp(l) == Return(l)

\* Step 5 and the final return
Fallback(l) ==
    IF l.attempted # <<>>
    THEN Return([l EXCEPT !.result.email = l.attempted[1],
                          !.result.confidence = Num(30),
                          !.result.method = "unverified_pattern",
                          !.stages = Append(@, "fallback")])
    ELSE Return(l)

\* Step 4 begins: search_public_sources builds its queries and takes the first
NumQueries(l) == IF l.domain # None THEN 3 ELSE 2

EnterPublic(l) ==
    Limited([l EXCEPT !.qidx = 1, !.stages = Append(@, "public")], "pub_search")

\* mutant: the first candidate is verified outside `with self.rate_limiter:`
EnterPattern_NoLimit(l) ==
    LET l1 == [l EXCEPT !.stages = Append(@, "pattern")]
    IN IF email_patterns(l) = <<>>
       THEN EnterPublic(l1)
       ELSE [l1 EXCEPT !.idx = 1, !.vsite = "pattern", !.vemail = email_patterns(l)[1],
                       !.pc = "verify"]

\* Step 3 begins: generate_email_patterns, then the loop's first iteration
EnterPattern(l) ==
    LET l1 == [l EXCEPT !.stages = Append(@, "pattern")]
    IN IF email_patterns(l) = <<>>
       THEN EnterPublic(l1)
       ELSE Limited([l1 EXCEPT !.idx = 1, !.vsite = "pattern",
                               !.vemail = email_patterns(l)[1]], "verify")

\* mutant: the validator request is made outside `with self.rate_limiter:`
AfterHunter_NoLimit(l, validator_key) ==
    IF validator_key THEN [l EXCEPT !.pc = "validator"] ELSE EnterPattern(l)

\* mutant: the validator is not tried once the finder provider was passed
AfterHunter_SkipValidator(l, validator_key) == EnterPattern(l)

\* find_email_via_api after the finder provider gave nothing (or has no key)
AfterHunter(l, validator_key) ==
    IF validator_key THEN Limited(l, "validator") ELSE EnterPattern(l)

\* mutant: the finder provider is asked whether or not its key is set
EnterApi_NoKeyCheck(l, hunter_key, validator_key) ==
    Limited([l EXCEPT !.stages = Append(@, "api")], "hunter")

\* Step 2 begins: find_email_via_api
EnterApi(l, hunter_key, validator_key) ==
    LET l1 == [l EXCEPT !.stages = Append(@, "api")]
    IN IF hunter_key THEN Limited(l1, "hunter") ELSE AfterHunter(l1, validator_key)

\* mutant: discover_email does not return after an api hit
ApiHit_NoReturn(l, email, confidence, provider) ==
    EnterPattern([l EXCEPT !.result.email = email,
                           !.result.confidence = confidence,
                           !.result.method = "api",
                           !.provider = provider])

\* find_email_via_api returned an email: result["method"] = "api"
ApiHit(l, email, confidence, provider) ==
    Return([l EXCEPT !.result.email = email,
                     !.result.confidence = confidence,
                     !.result.method = "api",
                     !.provider = provider])

\* mutant: discover_email goes on without a domain
AfterDomain_NoCheck(l, domain, hunter_key, validator_key) ==
    EnterApi([l EXCEPT !.domain = domain, !.result.domain = domain],
             hunter_key, validator_key)

\* get_company_domain returned `domain`
AfterDomain(l, domain, hunter_key, validator_key) ==
    IF domain = None THEN Return(l)
    ELSE EnterApi([l EXCEPT !.domain = domain, !.result.domain = domain],
                  hunter_key, validator_key)

\* mutant: the pattern loop does not stop at a valid candidate
AfterVerify_NoStop(l, is_valid) ==
    IF l.vsite = "pattern"
    THEN LET l1 == [l EXCEPT !.attempted = Append(@, l.vemail),
                             !.verdicts = Append(@, is_valid)]
             l2 == IF is_valid
                   THEN [l1 EXCEPT !.result.email = l.vemail,
                                   !.result.confidence = Num(75),
                                   !.result.method = "pattern"]
                   ELSE l1
         IN IF l.idx < Len(email_patterns(l))
            THEN Limited([l2 EXCEPT !.idx = l.idx + 1,
                                    !.vemail = email_patterns(l)[l.idx + 1]], "verify")
            ELSE IF l2.result.email # None THEN Return(l2) ELSE EnterPublic(l2)
    ELSE IF is_valid
         THEN Return([l EXCEPT !.result.email = l.public_result.email,
                               !.result.confidence = l.public_result.confidence,
                               !.result.method = "public",
                               !.pub_valid = "true"])
         ELSE Fallback([l EXCEPT !.pub_valid = "false"])

\* mutant: the public hit is returned whatever its verification said
AfterVerify_TrustPublic(l, is_valid) ==
    IF l.vsite = "pattern"
    THEN LET l1 == [l EXCEPT !.attempted = Append(@, l.vemail),
                             !.verdicts = Append(@, is_valid)]
         IN IF is_valid
            THEN Return([l1 EXCEPT !.result.email = l.vemail,
                                   !.result.confidence = Num(75),
                                   !.result.method = "pattern"])
            ELSE IF l.idx < Len(email_patterns(l))
                 THEN Limited([l1 EXCEPT !.idx = l.idx + 1,
                                         !.vemail = email_patterns(l)[l.idx + 1]], "verify")
                 ELSE EnterPublic(l1)
    ELSE Return([l EXCEPT !.result.email = l.public_result.email,
                          !.result.confidence = l.public_result.confidence,
                          !.result.method = "public",
                          !.pub_valid = IF is_valid THEN "true" ELSE "false"])

\* verify_email returned is_valid to its call site in discover_email
AfterVerify(l, is_valid) ==
    IF l.vsite = "pattern"
    THEN LET l1 == [l EXCEPT !.attempted = Append(@, l.vemail),
                             !.verdicts = Append(@, is_valid)]
         IN IF is_valid
            THEN Return([l1 EXCEPT !.result.email = l.vemail,
                                   !.result.confidence = Num(75),
                                   !.result.method = "pattern"])
            ELSE IF l.idx < Len(email_patterns(l))
                 THEN Limited([l1 EXCEPT !.idx = l.idx + 1,
                                         !.vemail = email_patterns(l)[l.idx + 1]], "verify")
                 ELSE EnterPublic(l1)
    ELSE IF is_valid
         THEN Return([l EXCEPT !.result.email = l.public_result.email,
                               !.result.confidence = l.public_result.confidence,
                               !.result.method = "public",
                               !.pub_valid = "true"])
         ELSE Fallback([l EXCEPT !.pub_valid = "false"])

\* dict[key] = value
Put(f, k, v) == [x \in (DOMAIN f) \cup {k} |-> IF x = k THEN v ELSE f[x]]

DInit ==
    /\ wk = [w \in Workers |-> IdleFrame]
    /\ domain_cache = <<>>
    /\ mx_cache = <<>>
    /\ email_verification_cache = <<>>
    /\ hunter_api_key \in BOOLEAN
    /\ email_validator_key \in BOOLEAN
    /\ ncalls = 0

\* no method has been called directly
NoCall == [fn |-> "none", args |-> <<>>, ret |-> <<>>, net |-> <<>>]

\* process_csv has not been called
CsvOff ==
    /\ main_pc = "off"
    /\ batch_start = 0
    /\ batch_size = 0
    /\ df_in = <<>>
    /\ df = <<>>
    /\ queue = <<>>
    /\ results = <<>>
    /\ csv_lock = 0
    /\ output_file = <<>>
    /\ th = <<>>
    /\ invoked = <<>>
    /\ input_file = <<>>
    /\ num_threads = 0
    /\ fail_run = 0

\* scraper_tool.process_csv has not been called
ScraperOff ==
    [pc |-> "off", i |-> 0, j |-> 0, batch_end |-> 0, batch_size |-> 0, df |-> <<>>,
     consecutive_failures |-> 0, retry |-> 0, log |-> <<>>]

\* linkedin_connector.process_connections has not been called
ConnectorOff ==
    [pc |-> "off", i |-> 0, j |-> 0, batch_end |-> 0, batch_size |-> 0, df |-> <<>>,
     requests_sent |-> 0, requests_failed |-> 0, consecutive_errors |-> 0,
     max_requests |-> 0, calls |-> 0, cooldowns |-> 0]

ToolsOff == scraper = ScraperOff /\ connector = ConnectorOff

OInit == fcall = NoCall /\ CsvOff /\ ToolsOff

Init == RLInit /\ DInit /\ OInit

Frame(w, l) == wk' = [wk EXCEPT ![w] = l]

\* mutant: discover_email without its input validation
MissingInput_Never(p) == FALSE

\* not first_name or not last_name or not company_name
MissingInput(p) == p.first = <<>> \/ p.last = <<>> \/ p.company = <<>>

\* discover_email(first_name, last_name, company_name) is called: input validation,
\* then get_company_domain up to its cache lookup
DiscoverCall(w, p) ==
    /\ wk[w].pc \in {"idle", "done"}
    /\ ncalls < MaxCalls
    /\ ncalls' = ncalls + 1
    /\ LET l == [IdleFrame EXCEPT !.inp = p]
           key == NormalizeCompany(p.company)
       IN IF MissingInput(p)
          THEN Frame(w, Return(l))
          ELSE LET l1 == [l EXCEPT !.stages = Append(@, "domain")]
               IN IF key \in DOMAIN domain_cache
                  THEN Frame(w, AfterDomain(l1, domain_cache[key],
                                            hunter_api_key, email_validator_key))
                  ELSE Frame(w, Limited(l1, "dom_search"))
    /\ UNCHANGED <<domain_cache, mx_cache, email_verification_cache,
                   hunter_api_key, email_validator_key>>

\* a call of discover_email by the engine's own callers
Discover(w, p) == DiscoverCall(w, p) /\ UNCHANGED <<rlvars, ovars>>

\* `with self.rate_limiter:` -- RateLimiter.__enter__ from its lock to its unlock
\* (the clock and the sleep are those of SpecRL); the block's body is entered
Acquire(w) ==
    /\ wk[w].pc = "rl_wait"
    /\ LockFree
    /\ Frame(w, Bump([wk[w] EXCEPT !.pc = wk[w].cont, !.cont = "none", !.cnt.blk = 0,
                                   !.last = NoEvent],
                     "permits"))
    /\ UNCHANGED <<domain_cache, mx_cache, email_verification_cache,
                   hunter_api_key, email_validator_key, ncalls>>
    /\ UNCHANGED <<rlvars, ovars>>

\* mutant: the except branch of get_company_domain falls back to the guess
search_return_GuessOnError(resp, company_name) ==
    IF resp.kind = "raise"
    THEN CleanAlnum(Lower(company_name)) \o DOTCOM
    ELSE search_domain(resp.netlocs, company_name)

\* what get_company_domain returns after its web search
search_return(resp, company_name) ==
    IF resp.kind = "raise" THEN None ELSE search_domain(resp.netlocs, company_name)

\* get_company_domain: requests.get of the search page and what follows it
DomainSearch(w, resp) ==
    /\ wk[w].pc = "dom_search"
    /\ LET l == Outbound(Bump(wk[w], "search"))
           key == NormalizeCompany(l.inp.company)
           out == IF resp.kind = "raise" THEN "raise"
                  ELSE IF potential_domains(resp.netlocs, key) # <<>> THEN "hit"
                  ELSE "guess"
       IN IF resp.kind = "silent"
          THEN /\ Frame(w, Blocked(l))
               /\ UNCHANGED domain_cache
          ELSE /\ domain_cache' = IF resp.kind = "raise" THEN domain_cache
                                  ELSE Put(domain_cache, key, search_return(resp, key))
               /\ Frame(w, AfterDomain(Heard(l, "search", out), search_return(resp, key),
                                       hunter_api_key, email_validator_key))
    /\ UNCHANGED <<mx_cache, email_verification_cache,
                   hunter_api_key, email_validator_key, ncalls>>
    /\ UNCHANGED <<rlvars, ovars>>

\* find_email_via_api: the Hunter.io request
Hunter(w, resp) ==
    /\ wk[w].pc = "hunter"
    /\ LET l == Heard(Outbound(Bump(wk[w], "api")), "hunter", resp.kind)
       IN IF resp.kind = "silent"
          THEN Frame(w, Blocked(l))
          ELSE IF resp.kind = "email"
          THEN Frame(w, ApiHit(l, resp.email, Times100(resp.score), "hunter"))
          ELSE Frame(w, AfterHunter(l, email_validator_key))
    /\ UNCHANGED <<domain_cache, mx_cache, email_verification_cache,
                   hunter_api_key, email_validator_key, ncalls>>
    /\ UNCHANGED <<rlvars, ovars>>

\* the address find_email_via_api asks the validator about
validator_email(l) == Lower(l.inp.first) \o DOT \o Lower(l.inp.last) \o AT \o l.domain

\* find_email_via_api: the Email-Validator.net request
Validator(w, resp) ==
    /\ wk[w].pc = "validator"
    /\ LET l == Heard(Outbound(Bump(wk[w], "api")), "validator", resp.kind)
       IN IF resp.kind = "silent"
          THEN Frame(w, Blocked(l))
          ELSE IF resp.kind = "status" /\ resp.status = 1
          THEN Frame(w, ApiHit(l, validator_email(l), Num(85), "validator"))
          ELSE Frame(w, EnterPattern(l))
    /\ UNCHANGED <<domain_cache, mx_cache, email_verification_cache,
                   hunter_api_key, email_validator_key, ncalls>>
    /\ UNCHANGED <<rlvars, ovars>>

\* verify_email returns is_valid: to its call site in discover_email, or to the
\* caller of a direct call
VerifyReturn(l, is_valid) ==
    IF l.vsite = "direct"
    THEN Return([l EXCEPT !.verdicts = Append(@, is_valid)])
    ELSE AfterVerify(l, is_valid)

\* the record of a direct verify_email call: the network calls it made so far and,
\* once it has returned, its return value
Logged(l, events, ret) ==
    IF l.vsite = "direct"
    THEN [fcall EXCEPT !.net = @ \o events, !.ret = @ \o ret]
    ELSE fcall

\* mutant: only positive verdicts are cached
CacheVerdict_OnlyValid(cache, email, is_valid) ==
    IF is_valid THEN Put(cache, email, is_valid) ELSE cache

\* self.email_verification_cache[email] = is_valid
CacheVerdict(cache, email, is_valid) == Put(cache, email, is_valid)

\* mutant: verify_email goes on to SMTP without a mail exchanger
NoMxRecord_Never(mx_record) == FALSE

\* `if not mx_record:` in verify_email
NoMxRecord(mx_record) == mx_record = NoMx

\* verify_email as far as its first network call: the argument check, the cache
\* lookup, the syntax check and _get_mx_record's cache lookup
VerifyBegin(w) ==
    /\ wk[w].pc = "verify"
    /\ LET l == Bump(wk[w], "verify")
           email == l.vemail
           domain == SplitSecond(email, "@")
       IN IF email = <<>> \/ ~Contains(email, AT)
          THEN /\ Frame(w, VerifyReturn(l, FALSE))
               /\ fcall' = Logged(l, <<>>, <<FALSE>>)
               /\ UNCHANGED email_verification_cache
          ELSE IF email \in DOMAIN email_verification_cache
          THEN /\ Frame(w, VerifyReturn(l, email_verification_cache[email]))
               /\ fcall' = Logged(l, <<>>, <<email_verification_cache[email]>>)
               /\ UNCHANGED email_verification_cache
          ELSE IF ~SyntaxOk(email)
          THEN /\ email_verification_cache' =
                     CacheVerdict(email_verification_cache, email, FALSE)
               /\ Frame(w, VerifyReturn(l, FALSE))
               /\ fcall' = Logged(l, <<>>, <<FALSE>>)
          ELSE IF domain \in DOMAIN mx_cache
          THEN IF NoMxRecord(mx_cache[domain])
               THEN /\ email_verification_cache' =
                          CacheVerdict(email_verification_cache, email, FALSE)
                    /\ Frame(w, VerifyReturn(l, FALSE))
                    /\ fcall' = Logged(l, <<>>, <<FALSE>>)
               ELSE /\ Frame(w, [l EXCEPT !.pc = "v_smtp"])
                    /\ UNCHANGED <<email_verification_cache, fcall>>
          ELSE /\ Frame(w, [l EXCEPT !.pc = "v_dns"])
               /\ UNCHANGED <<email_verification_cache, fcall>>
    /\ UNCHANGED <<domain_cache, mx_cache, hunter_api_key, email_validator_key,
                   ncalls>>
    /\ UNCHANGED <<rlvars, cvars, xvars>>

\* what _get_mx_record returns and caches for a DNS answer
mx_record_of(resp) ==
    IF resp.kind = "raise" \/ resp.records = <<>>
    THEN NoMx
    ELSE lowest_preference(resp.records)

\* _get_mx_record: dns.resolver.resolve(domain, 'MX') and what follows it
VerifyDns(w, resp) ==
    /\ wk[w].pc = "v_dns"
    /\ LET l == Heard(Outbound(wk[w]), "dns", resp.kind)
           email == l.vemail
           domain == SplitSecond(email, "@")
           ev == [op |-> "dns", resp |-> resp]
       IN /\ mx_cache' = Put(mx_cache, domain, mx_record_of(resp))
          /\ IF NoMxRecord(mx_record_of(resp))
             THEN /\ email_verification_cache' =
                        CacheVerdict(email_verification_cache, email, FALSE)
                  /\ Frame(w, VerifyReturn(l, FALSE))
                  /\ fcall' = Logged(l, <<ev>>, <<FALSE>>)
             ELSE /\ UNCHANGED email_verification_cache
                  /\ Frame(w, [l EXCEPT !.pc = "v_smtp"])
                  /\ fcall' = Logged(l, <<ev>>, <<>>)
    /\ UNCHANGED <<domain_cache, hunter_api_key, email_validator_key, ncalls>>
    /\ UNCHANGED <<rlvars, cvars, xvars>>

\* mutant: only a completed dialogue answered 250 counts as valid
smtp_is_valid_Strict(resp) == resp.kind = "code" /\ resp.code = 250

\* mutant: an SMTP dialogue that raised counts as a rejection
smtp_is_valid_Pessimistic(resp) ==
    IF resp.kind = "raise" THEN FALSE ELSE resp.code \in {250, 251}

\* is_valid as verify_email computes it from the SMTP dialogue
smtp_is_valid(resp) ==
    IF resp.kind = "raise" THEN TRUE ELSE resp.code \in {250, 251}

\* verify_email: the SMTP session and what follows it
VerifySmtp(w, resp) ==
    /\ wk[w].pc = "v_smtp"
    /\ LET l == Heard(Outbound(wk[w]), "smtp", resp.kind)
           ev == [op |-> "smtp", resp |-> resp]
       IN /\ email_verification_cache' =
                CacheVerdict(email_verification_cache, l.vemail, smtp_is_valid(resp))
          /\ Frame(w, VerifyReturn(l, smtp_is_valid(resp)))
          /\ fcall' = Logged(l, <<ev>>, <<smtp_is_valid(resp)>>)
    /\ UNCHANGED <<domain_cache, mx_cache, hunter_api_key, email_validator_key,
                   ncalls>>
    /\ UNCHANGED <<rlvars, cvars, xvars>>

\* the first email of the page that _is_likely_persons_email accepts, None if none
first_likely(emails, l) ==
    LET ok(e) == is_likely_persons_email(e, l.inp.first, l.inp.last, l.domain)
    IN IF SelectSeq(emails, ok) = <<>> THEN None ELSE SelectSeq(emails, ok)[1]

\* search_public_sources: one query's requests.get and what follows it
PublicSearch(w, resp) ==
    /\ wk[w].pc = "pub_search"
    /\ LET l == Heard(Outbound(Bump(wk[w], "pub")), "pub", resp.kind)
       IN IF resp.kind = "silent"
          THEN Frame(w, Blocked(l))
          ELSE IF resp.kind = "raise"
          THEN Frame(w, Fallback(l))
          ELSE IF first_likely(resp.emails, l) # None
          THEN Frame(w, Limited([l EXCEPT !.public_result =
                                             [email |-> first_likely(resp.emails, l),
                                              confidence |-> Num(60)],
                                          !.vsite = "public",
                                          !.vemail = first_likely(resp.emails, l)],
                                "verify"))
          ELSE IF l.qidx < NumQueries(l)
          THEN Frame(w, Limited([l EXCEPT !.qidx = l.qidx + 1], "pub_search"))
          ELSE Frame(w, Fallback(l))
    /\ UNCHANGED <<domain_cache, mx_cache, email_verification_cache,
                   hunter_api_key, email_validator_key, ncalls>>
    /\ UNCHANGED <<rlvars, ovars>>

\* no other worker is inside a discover_email call
Solo(w) == \A u \in Workers \ {w} : wk[u].pc \in {"idle", "done"}

\* the caller of the sequential specification
Callers == {w \in Workers : \A u \in Workers : w <= u}

\* calls made one after another on one engine instance
Next ==
    \/ \E w \in Callers, p \in Persons : Solo(w) /\ Discover(w, p)
    \/ \E w \in Workers : Acquire(w)
    \/ \E w \in Workers, resp \in DomainSearchResponses : DomainSearch(w, resp)
    \/ \E w \in Workers, resp \in HunterResponses : Hunter(w, resp)
    \/ \E w \in Workers, resp \in ValidatorResponses : Validator(w, resp)
    \/ \E w \in Workers : VerifyBegin(w)
    \/ \E w \in Workers, resp \in DnsResponses : VerifyDns(w, resp)
    \/ \E w \in Workers, resp \in SmtpResponses : VerifySmtp(w, resp)
    \/ \E w \in Workers, resp \in PublicSearchResponses : PublicSearch(w, resp)

Spec == Init /\ [][Next]_vars

\* the workers of process_csv: calls overlapping in any interleaving, with no
\* provider key configured and one public page
MTPersons == { [first |-> JOHN, last |-> DOE, company |-> ACME_INC] }
MTPublicSearchResponses == { r \in PublicSearchResponses : r.kind = "ok" /\ Len(r.emails) = 2 }

MTInit == Init /\ ~hunter_api_key /\ ~email_validator_key

MTNext ==
    \/ \E w \in Workers, p \in MTPersons : Discover(w, p)
    \/ \E w \in Workers : Acquire(w)
    \/ \E w \in Workers, resp \in DomainSearchResponses : DomainSearch(w, resp)
    \/ \E w \in Workers : VerifyBegin(w)
    \/ \E w \in Workers, resp \in DnsResponses : VerifyDns(w, resp)
    \/ \E w \in Workers, resp \in SmtpResponses : VerifySmtp(w, resp)
    \/ \E w \in Workers, resp \in MTPublicSearchResponses : PublicSearch(w, resp)

SpecMT == MTInit /\ [][MTNext]_vars

\* the RateLimiter alone, under the clock: threads call __enter__ and no
\* discover_email call is made
RLOnlyNext ==
    \/ \E t \in Threads : RL_Call(t) /\ UNCHANGED <<dvars, ovars>>
    \/ \E t \in Threads : RL_Lock(t) /\ UNCHANGED <<dvars, ovars>>
    \/ \E t \in Threads : RL_Read(t) /\ UNCHANGED <<dvars, ovars>>
    \/ \E t \in Threads : RL_Write(t) /\ UNCHANGED <<dvars, ovars>>
    \/ Tick /\ UNCHANGED <<dvars, ovars>>

SpecRL == MTInit /\ [][RLOnlyNext]_vars

\* fair scheduling: the clock goes on, a thread inside the block takes its next
\* step, and a thread that finds the lock free again and again gets it
RLFairness ==
    /\ WF_vars(Tick /\ UNCHANGED <<dvars, ovars>>)
    /\ \A t \in Threads :
          /\ SF_vars(RL_Lock(t) /\ UNCHANGED <<dvars, ovars>>)
          /\ WF_vars(RL_Read(t) /\ UNCHANGED <<dvars, ovars>>)
          /\ WF_vars(RL_Write(t) /\ UNCHANGED <<dvars, ovars>>)

SpecRLFair == SpecRL /\ RLFairness

\* ------------------------------------------- methods called on their own
\* distinct arguments tried per direct call sequence
MaxDirect == 3

MARY_ANN_PADDED == <<" ","M","a","r","y","-","A","n","n"," ">>
J_R == <<"J",".","R",".">>
O_NEIL == <<"O","'","N","e","i","l">>
T_HOOFT == <<"'","t"," ","H","o","o","f","t">>
VAN_DYK == <<"v","a","n"," ","D","y","k">>
Acme_co_uk == <<"A","c","m","e",".","c","o",".","u","k">>

\* arguments given to generate_email_patterns
FirstNames == { <<>>, JOHN, MARY_ANN_PADDED, J_R, BLANK, O_NEIL }
LastNames == { <<>>, DOE, O_NEIL, T_HOOFT, VAN_DYK, BLANK }
Domains == { <<>>, acme_com, Acme_co_uk }

\* generate_email_patterns(first_name, last_name, domain) is called and returns; it
\* uses nothing of self but the method itself
GeneratePatterns(first_name, last_name, domain) ==
    /\ fcall' = [fn |-> "generate_email_patterns",
                 args |-> <<first_name, last_name, domain>>,
                 ret |-> generate_email_patterns(first_name, last_name, domain),
                 net |-> <<>>]
    /\ UNCHANGED <<rlvars, dvars, cvars, xvars>>

\* arguments given to verify_email: None/'', no '@', a host without a top-level
\* domain, a character outside the local-part class, and well-formed ones
Addresses ==
    { <<>>,
      <<"j","o","h","n",".","d","o","e">>,
      <<"j","o","h","n","@","a","c","m","e">>,
      <<"j","'","d","o","e","@","a","c","m","e",".","c","o","m">>,
      <<"j","o","h","n",".","d","o","e","@","a","c","m","e",".","c","o","m">>,
      <<"j","d","o","e","@","a","c","m","e",".","c","o","m">> }

\* verify_email(email) is called on its own
DirectVerify(w, email) ==
    /\ wk[w].pc \in {"idle", "done"}
    /\ ncalls < MaxDirect
    /\ ncalls' = ncalls + 1
    /\ Frame(w, [IdleFrame EXCEPT !.pc = "verify", !.vsite = "direct", !.vemail = email])
    /\ fcall' = [fn |-> "verify_email", args |-> <<email>>, ret |-> <<>>, net |-> <<>>]
    /\ UNCHANGED <<domain_cache, mx_cache, email_verification_cache,
                   hunter_api_key, email_validator_key>>
    /\ UNCHANGED <<rlvars, cvars, xvars>>

\* verify_email calls made one after another on one engine instance
VENext ==
    \/ \E w \in Callers, email \in Addresses : Solo(w) /\ DirectVerify(w, email)
    \/ \E w \in Workers : VerifyBegin(w)
    \/ \E w \in Workers, resp \in DnsResponses : VerifyDns(w, resp)
    \/ \E w \in Workers, resp \in SmtpResponses : VerifySmtp(w, resp)

SpecVE == MTInit /\ [][VENext]_vars

FnNext ==
    \E first_name \in FirstNames, last_name \in LastNames, domain \in Domains :
        GeneratePatterns(first_name, last_name, domain)

SpecFn == MTInit /\ [][FnNext]_vars

\* ------------------------------------------------------------ process_csv
\* rows of the input file
NRows == 5
\* the default of the num_threads argument, the largest pool tried
default_num_threads == 3
\* the start_row argument (its default)
start_row == 0

Rows == 0..(NRows - 1)
CsvThreads == 1..default_num_threads

\* a missing cell as pandas reads it, and None as pandas stores it
NaN == <<"NaN">>

\* mutant: the queue is filled without the already-has-email test
HasEmail_Never(cell) == FALSE

\* not pd.isna(cell) and cell != ""
HasEmail(cell) == cell # NaN /\ cell # <<>>

\* the email columns of row i of the input: every third row comes with an email,
\* the others with an empty cell (NaN) or an empty string
InputRow(i) ==
    IF i % 3 = 1
    THEN [email |-> <<"k", DigitChars[i + 1], "@">> \o acme_com, confidence |-> Num(90),
          method |-> "manual", domain |-> acme_com]
    ELSE [email |-> IF i % 2 = 0 THEN NaN ELSE <<>>, confidence |-> Num(0),
          method |-> "", domain |-> <<>>]

\* required_cols and alt_cols
required_cols == <<"First Name", "Last Name", "Company Name">>
alt_cols ==
    [col \in Range(required_cols) |->
        CASE col = "First Name" -> <<"FirstName", "Given Name", "Name">>
          [] col = "Last Name" -> <<"LastName", "Surname", "Family Name">>
          [] col = "Company Name" -> <<"Company", "Organization", "Employer">>]

\* the four columns process_csv adds when the file lacks them
email_cols == {"Email", "Email Confidence", "Email Method", "Company Domain"}

\* mutant: the column check dropped
missing_cols_None(columns) == <<>>

\* missing_cols after the alternative names were tried: the required columns that
\* the file has under neither their own name nor one of their alternatives
missing_cols(columns) ==
    SelectSeq(required_cols,
              LAMBDA col : col \notin columns
                           /\ \A alt \in Range(alt_cols[col]) : alt \notin columns)

\* the files tried at the input_file path: the canonical header, alternative names
\* without the email columns, a header without a company column, a header whose
\* only name column is one alternative of First Name, a file pd.read_csv cannot
\* parse, and no file
CanonicalFile ==
    [exists |-> TRUE, parses |-> TRUE, columns |-> Range(required_cols) \cup email_cols]
SynonymFile ==
    [exists |-> TRUE, parses |-> TRUE, columns |-> {"FirstName", "Surname", "Employer"}]
NoCompanyFile ==
    [exists |-> TRUE, parses |-> TRUE, columns |-> {"First Name", "Last Name"} \cup email_cols]
NameOnlyFile ==
    [exists |-> TRUE, parses |-> TRUE, columns |-> {"Name", "Company"}]
UnparsableFile == [exists |-> TRUE, parses |-> FALSE, columns |-> {}]
NoFile == [exists |-> FALSE, parses |-> FALSE, columns |-> {}]

\* the calls process_csv(input_file, batch_size=, num_threads=) tried: the file
\* with the canonical header in batches of 2 and in one batch by the default pool,
\* the file without email columns (every row is to be discovered) in one batch by
\* one thread, and the other files
CsvCalls ==
    { [input_file |-> CanonicalFile, batch_size |-> b, num_threads |-> default_num_threads] :
         b \in {2, NRows} }
    \cup { [input_file |-> SynonymFile, batch_size |-> NRows, num_threads |-> 1] }
    \cup { [input_file |-> f, batch_size |-> NRows, num_threads |-> default_num_threads] :
         f \in {NoCompanyFile, NameOnlyFile, UnparsableFile, NoFile} }

\* upper bounds in seconds of time.sleep(random.uniform(1.0, 3.0)) before
\* discover_email and of time.sleep(random.uniform(3.0, 8.0)) after the save
pre_delay == 3
post_delay == 8

\* what discover_email gives for row i: it raises, it never returns (one of its
\* requests.get calls is left unanswered), or it returns one of its results;
\* errors tells whether a network or protocol error was caught on the way (the
\* empty result comes from an empty field or from a web search that failed)
DiscoverOutcomes(i) ==
    { [kind |-> "raise", errors |-> TRUE],
      [kind |-> "hang", errors |-> FALSE],
      [kind |-> "result", errors |-> FALSE, result |-> EmptyResult],
      [kind |-> "result", errors |-> TRUE, result |-> EmptyResult],
      [kind |-> "result", errors |-> FALSE,
       result |-> [email |-> <<"r", DigitChars[i + 1], "@">> \o acme_com,
                   confidence |-> Num(75), method |-> "pattern", domain |-> acme_com]] }

\* a value as df.loc[...] = value stores it
Cell(v) == IF v = None THEN NaN ELSE v

\* the four df.loc assignments of the worker
WriteBack(email_result) ==
    [email |-> Cell(email_result.email),
     confidence |-> email_result.confidence,
     method |-> email_result.method,
     domain |-> Cell(email_result.domain)]

\* a worker thread that was not started
Unborn == [pc |-> "unborn", i |-> 0, email_result |-> EmptyResult, buf |-> <<>>,
           paused |-> 0]

\* process_csv(input_file, batch_size=...) is called
CsvInit ==
    /\ RLInit /\ DInit /\ ~hunter_api_key /\ ~email_validator_key
    /\ fcall = NoCall /\ ToolsOff
    /\ main_pc = "start"
    /\ \E call \in CsvCalls :
          /\ input_file = call.input_file
          /\ batch_size = call.batch_size
          /\ num_threads = call.num_threads
    /\ batch_start = start_row
    /\ df_in = <<>>
    /\ df = <<>>
    /\ queue = <<>>
    /\ results = <<>>
    /\ csv_lock = 0
    /\ output_file = <<>>
    /\ th = [t \in CsvThreads |-> Unborn]
    /\ invoked = [i \in Rows |-> 0]
    /\ fail_run = 0

\* row i of the dataframe once the email columns exist: a column the file lacks
\* is added with "" (0 for the confidence)
ReadRow(i) ==
    [email |-> IF "Email" \in input_file.columns THEN InputRow(i).email ELSE <<>>,
     confidence |-> IF "Email Confidence" \in input_file.columns
                    THEN InputRow(i).confidence ELSE Num(0),
     method |-> IF "Email Method" \in input_file.columns THEN InputRow(i).method ELSE "",
     domain |-> IF "Company Domain" \in input_file.columns
                THEN InputRow(i).domain ELSE <<>>]

\* the head of process_csv: os.path.exists, pd.read_csv (an exception of which
\* the outer except turns into `return None`), the column check with the
\* alternative names, the email columns
M_Read ==
    /\ main_pc = "start"
    /\ IF \/ ~input_file.exists
          \/ ~input_file.parses
          \/ missing_cols(input_file.columns) # <<>>
       THEN /\ main_pc' = "failed"
            /\ UNCHANGED <<df_in, df>>
       ELSE /\ main_pc' = "batch"
            /\ df' = [i \in Rows |-> ReadRow(i)]
            /\ df_in' = df'
    /\ UNCHANGED <<batch_start, batch_size, queue, results, csv_lock, output_file, th,
                   invoked, input_file, num_threads, fail_run>>
    /\ UNCHANGED <<rlvars, dvars, fcall, xvars>>

\* the rows of the batch that go on the queue, in row order
RECURSIVE Enqueued(_, _)
Enqueued(from, to) ==
    IF from >= to THEN <<>>
    ELSE IF HasEmail(df[from].email)
         THEN Enqueued(from + 1, to)
         ELSE <<from>> \o Enqueued(from + 1, to)

batch_end == MinOf(batch_start + batch_size, NRows)

\* one batch begins: queue, results and lock are created, the rows without an email
\* are put on the queue, min(num_threads, queue.qsize()) threads are started
M_Batch ==
    /\ main_pc = "batch"
    /\ batch_start < NRows
    /\ queue' = Enqueued(batch_start, batch_end)
    /\ results' = <<>>
    /\ csv_lock' = 0
    /\ th' = [t \in CsvThreads |->
                IF t <= MinOf(num_threads, Len(queue'))
                THEN [Unborn EXCEPT !.pc = "loop"]
                ELSE Unborn]
    /\ main_pc' = "join"
    /\ fail_run' = 0
    /\ UNCHANGED <<batch_start, batch_size, df_in, df, output_file, invoked, input_file, num_threads>>
    /\ UNCHANGED <<rlvars, dvars, fcall, xvars>>

\* mutant: the batch loop goes on without t.join()
AllJoined_NoWait == TRUE

\* `for t in threads: t.join()` has returned: every started thread has terminated
AllJoined == \A t \in CsvThreads : th[t].pc \in {"unborn", "exit"}

\* every started thread was joined: df.to_csv, then the next batch or the final save
M_Join ==
    /\ main_pc = "join"
    /\ AllJoined
    /\ output_file' = df
    /\ batch_start' = batch_start + batch_size
    /\ main_pc' = IF batch_start + batch_size < NRows THEN "batch" ELSE "done"
    /\ UNCHANGED <<batch_size, df_in, df, queue, results, csv_lock, th, invoked,
                   input_file, num_threads, fail_run>>
    /\ UNCHANGED <<rlvars, dvars, fcall, xvars>>

\* while not queue.empty():
W_Test(t) ==
    /\ th[t].pc = "loop"
    /\ th' = [th EXCEPT ![t].pc = IF queue = <<>> THEN "exit" ELSE "get"]
    /\ UNCHANGED <<main_pc, batch_start, batch_size, df_in, df, queue, results,
                   csv_lock, output_file, invoked, input_file, num_threads, fail_run>>
    /\ UNCHANGED <<rlvars, dvars, fcall, xvars>>

\* i = queue.get(block=False): raises Empty (caught, back to the loop test) when
\* another thread took the last index; else the profile is read
W_Get(t) ==
    /\ th[t].pc = "get"
    /\ IF queue = <<>>
       THEN /\ th' = [th EXCEPT ![t].pc = "loop"]
            /\ UNCHANGED queue
       ELSE /\ th' = [th EXCEPT ![t].pc = "discover", ![t].i = Head(queue),
                                 ![t].paused = @ + pre_delay]
            /\ queue' = Tail(queue)
    /\ UNCHANGED <<main_pc, batch_start, batch_size, df_in, df, results,
                   csv_lock, output_file, invoked, input_file, num_threads, fail_run>>
    /\ UNCHANGED <<rlvars, dvars, fcall, xvars>>

\* mutant: the worker without its try/except: the exception ends the thread
OnException_Dies(thr) == [thr EXCEPT !.pc = "exit"]

\* `except Exception as e:` logs, `finally:` follows, and the loop test is next;
\* the sleep after the save was skipped
OnException(thr) == [thr EXCEPT !.pc = "loop", !.paused = 0]

\* email_result = self.discover_email(...): it returns, or it raises and the
\* except and finally clauses lead back to the loop test, or it never returns
W_Discover(t, outcome) ==
    /\ th[t].pc = "discover"
    /\ invoked' = [invoked EXCEPT ![th[t].i] = @ + 1]
    /\ fail_run' = IF outcome.kind = "hang" THEN fail_run
                   ELSE IF outcome.errors THEN fail_run + 1 ELSE 0
    /\ IF outcome.kind = "hang"
       THEN th' = [th EXCEPT ![t].pc = "hung"]
       ELSE IF outcome.kind = "raise"
       THEN th' = [th EXCEPT ![t] = OnException(th[t])]
       ELSE th' = [th EXCEPT ![t].pc = "lock", ![t].email_result = outcome.result]
    /\ UNCHANGED <<main_pc, batch_start, batch_size, df_in, df, queue, results,
                   csv_lock, output_file, input_file, num_threads>>
    /\ UNCHANGED <<rlvars, dvars, fcall, xvars>>

\* mutant: the worker without `with lock:`
CsvLockFree_Always == TRUE

\* the guard of `with lock:` in the worker
CsvLockFree == csv_lock = 0

\* with lock:
W_Lock(t) ==
    /\ th[t].pc = "lock"
    /\ CsvLockFree
    /\ csv_lock' = t
    /\ th' = [th EXCEPT ![t].pc = "write"]
    /\ UNCHANGED <<main_pc, batch_start, batch_size, df_in, df, queue, results,
                   output_file, invoked, input_file, num_threads, fail_run>>
    /\ UNCHANGED <<rlvars, dvars, fcall, xvars>>

\* results[i] = email_result and the four df.loc assignments
W_Write(t) ==
    /\ th[t].pc = "write"
    /\ results' = Put(results, th[t].i, th[t].email_result)
    /\ df' = [df EXCEPT ![th[t].i] = WriteBack(th[t].email_result)]
    /\ th' = [th EXCEPT ![t].pc = "format"]
    /\ UNCHANGED <<main_pc, batch_start, batch_size, df_in, queue, csv_lock,
                   output_file, invoked, input_file, num_threads, fail_run>>
    /\ UNCHANGED <<rlvars, dvars, fcall, xvars>>

\* df.to_csv(output_file, index=False): the frame is read and formatted
W_Format(t) ==
    /\ th[t].pc = "format"
    /\ th' = [th EXCEPT ![t].pc = "persist", ![t].buf = df]
    /\ UNCHANGED <<main_pc, batch_start, batch_size, df_in, df, queue, results,
                   csv_lock, output_file, invoked, input_file, num_threads, fail_run>>
    /\ UNCHANGED <<rlvars, dvars, fcall, xvars>>

\* df.to_csv: the file is written; the lock is released, the sleep and the finally
\* clause lead back to the loop test
W_Persist(t) ==
    /\ th[t].pc = "persist"
    /\ output_file' = th[t].buf
    /\ csv_lock' = 0
    /\ th' = [th EXCEPT ![t].pc = "loop", ![t].buf = <<>>, ![t].paused = post_delay]
    /\ UNCHANGED <<main_pc, batch_start, batch_size, df_in, df, queue, results,
                   invoked, input_file, num_threads, fail_run>>
    /\ UNCHANGED <<rlvars, dvars, fcall, xvars>>

CsvNext ==
    \/ M_Read
    \/ M_Batch
    \/ M_Join
    \/ \E t \in CsvThreads : W_Test(t)
    \/ \E t \in CsvThreads : W_Get(t)
    \/ \E t \in CsvThreads : \E outcome \in DiscoverOutcomes(th[t].i) : W_Discover(t, outcome)
    \/ \E t \in CsvThreads : W_Lock(t)
    \/ \E t \in CsvThreads : W_Write(t)
    \/ \E t \in CsvThreads : W_Format(t)
    \/ \E t \in CsvThreads : W_Persist(t)

SpecCSV == CsvInit /\ [][CsvNext]_vars

\* ----------------------------------------------------------------- claims

\* C2: every two consecutively permitted calls of one RateLimiter have recorded
\* timestamps at least min_interval apart, whichever threads made them; hence N
\* permitted calls span at least (N-1) * min_interval from the first to the last.
C2_MinSpacing ==
    /\ \A i \in 2..Len(grants) : grants[i][2] - grants[i-1][2] >= min_interval
    /\ Len(grants) >= 1 =>
          grants[Len(grants)][2] - grants[1][2] >= (Len(grants) - 1) * min_interval

\* three permits, granted to more than one thread, the later ones after a sleep
C2_Witness ==
    /\ Len(grants) = 3
    /\ \E i, j \in 1..3 : grants[i][1] # grants[j][1]
    /\ \E t \in Threads : slept[t]

\* C3: at most one thread at a time is between its read of last_call_time and its
\* write of the new timestamp (inside the `with self.lock` block).
C3_OneInside ==
    /\ Cardinality({ t \in Threads : tpc[t] \in {"locked", "timed"} }) <= 1
    /\ \A t \in Threads : tpc[t] \in {"locked", "timed"} => lock = t

\* one thread sleeps inside the block while another waits outside having been
\* permitted before
C3_Witness ==
    \E t, u \in Threads :
        /\ t # u
        /\ tpc[t] = "timed" /\ slept[t] /\ now < wake[t]
        /\ tpc[u] = "out"
        /\ \E i \in 1..Len(grants) : grants[i][1] = u

\* C30: the RateLimiter never rejects a call: under fair scheduling every thread
\* that has called __enter__ gets the lock and returns; inside the block it sleeps
\* not at all when min_interval has passed since the last permitted call, and
\* otherwise exactly up to min_interval after that call.
C30_NeverRejects ==
    /\ \A t \in Threads : (tpc[t] = "waiting") ~> (tpc[t] = "locked")
    /\ \A t \in Threads : (tpc[t] = "locked") ~> (tpc[t] = "out")
    /\ [](\A t \in Threads :
             tpc[t] = "timed" =>
                IF slept[t]
                THEN wake[t] = last_call_time + 60 \div max_calls_per_minute
                ELSE wake[t] <= now)

\* one thread waits for the lock while the other sleeps inside the block
C30_Witness ==
    \E t, u \in Threads :
        /\ tpc[t] = "waiting"
        /\ tpc[u] = "timed" /\ slept[u] /\ now < wake[u]
        /\ lock = u

\* -------------------------------------------------- claims on discover_email
StageOrder == <<"domain", "api", "pattern", "public", "fallback">>

IsPrefix(s, t) == Len(s) <= Len(t) /\ SubSeq(t, 1, Len(s)) = s

\* the stage that sets each method tag
StageOf(method) ==
    CASE method = "api" -> "api"
      [] method = "pattern" -> "pattern"
      [] method = "public" -> "public"
      [] method = "unverified_pattern" -> "fallback"

Returned(l) == l.pc = "done"

\* C1: the stages of a discover_email call are entered in the fixed order domain,
\* api, pattern, public, fallback; once a stage has put an email into the result the
\* call has returned, tagged with that stage's method, and no later stage was
\* entered: after an api hit no verify_email call and no public search was made,
\* after a pattern hit no public search.
C1_StageOrder ==
    \A w \in Workers :
        LET l == wk[w]
        IN /\ IsPrefix(l.stages, StageOrder)
           /\ l.result.email # None =>
                 /\ Returned(l)
                 /\ l.stages[Len(l.stages)] = StageOf(l.result.method)
           /\ l.result.method = "api" => l.cnt.verify = 0 /\ l.cnt.pub = 0
           /\ l.result.method = "pattern" => l.cnt.pub = 0

\* a call answered by the validator provider after the finder provider gave nothing
C1_Witness ==
    \E w \in Workers :
        /\ Returned(wk[w]) /\ wk[w].result.method = "api"
        /\ wk[w].provider = "validator" /\ wk[w].cnt.api = 2

\* C4 as claimed: every outbound network call of a worker has a rate-limiter
\* acquisition of its own, so no second call is started on the same permit.
C4_OwnPermitPerCall ==
    \A w \in Workers : wk[w].cnt.blk <= 1

\* C4 as amended: every rate-limited operation of a worker (web search, provider
\* request, verify_email call) has a permit of its own and every outbound call is
\* made after a permit of that worker, but one permit covers the whole
\* verify_email call: at most two outbound calls (the DNS MX query, then the SMTP
\* session) are started on one permit.
C4_CallsPerPermit ==
    \A w \in Workers :
        LET c == wk[w].cnt
        IN /\ c.search + c.api + c.verify + c.pub <= c.permits
           /\ c.blk <= 2
           /\ c.blk > 0 => c.permits > 0
           /\ wk[w].pc \in {"dom_search", "hunter", "validator", "pub_search", "verify"}
                 => c.blk = 0 /\ c.permits > 0
           /\ wk[w].pc = "v_dns" => c.blk = 0
           /\ wk[w].pc = "v_smtp" => c.blk <= 1

\* a worker has made the DNS query and the SMTP session of one verify_email call
\* on one permit
C4_Witness ==
    \E w \in Workers : wk[w].cnt.blk = 2 /\ wk[w].cnt.verify >= 1

Methods == {"api", "pattern", "public", "unverified_pattern"}

\* C5: a returned result is empty or fully populated: without an email the
\* confidence is 0 and the method is None, with an email the method is one of api,
\* pattern, public, unverified_pattern.
C5_ResultShape ==
    \A w \in Workers :
        Returned(wk[w]) =>
            LET r == wk[w].result
            IN /\ r.email = None => NumEq(r.confidence, 0) /\ r.method = NoMethod
               /\ r.email # None => r.method \in Methods

\* a call that returned with no email after the domain search raised, and one that
\* returned an unverified pattern
C5_Witness ==
    /\ \E w \in Workers :
          /\ Returned(wk[w]) /\ wk[w].result.email = None /\ wk[w].cnt.search = 1
    /\ ncalls = MaxCalls

\* C6: the confidence is fixed by the stage: pattern 75, public 60,
\* unverified_pattern 30, api from the validator provider 85, api from the finder
\* provider at most 100.
C6_ConfidenceByStage ==
    \A w \in Workers :
        Returned(wk[w]) =>
            LET r == wk[w].result
            IN /\ r.method = "pattern" => NumEq(r.confidence, 75)
               /\ r.method = "public" => NumEq(r.confidence, 60)
               /\ r.method = "unverified_pattern" => NumEq(r.confidence, 30)
               /\ r.method = "api" /\ wk[w].provider = "validator" => NumEq(r.confidence, 85)
               /\ r.method = "api" /\ wk[w].provider = "hunter" => NumLe(r.confidence, 100)

\* C7: the confidence of every returned result is an integer from 0 to 100.
C7_ConfidenceRange ==
    \A w \in Workers :
        Returned(wk[w]) =>
            /\ IsInteger(wk[w].result.confidence)
            /\ NumGe(wk[w].result.confidence, 0)
            /\ NumLe(wk[w].result.confidence, 100)

\* C8: the candidates are verified one at a time in generator order, each
\* verify_email call on a permit of its own; every candidate verified before the
\* last one was found invalid, and the call returns a pattern result exactly when
\* the last verified candidate was found valid: that candidate, with confidence 75.
C8_PatternStage ==
    \A w \in Workers :
        LET l == wk[w]
            n == Len(l.attempted)
        IN /\ Len(l.verdicts) = n
           /\ n > 0 => IsPrefix(l.attempted, email_patterns(l))
           /\ \A i \in 1..(n - 1) : ~l.verdicts[i]
           /\ l.cnt.verify <= l.cnt.permits - l.cnt.search - l.cnt.api - l.cnt.pub
           /\ l.pc \in {"verify", "v_dns", "v_smtp"} /\ l.vsite = "pattern"
                 => l.idx = n + 1 /\ l.vemail = email_patterns(l)[l.idx]
           /\ (n > 0 /\ l.verdicts[n]) <=> l.result.method = "pattern"
           /\ l.result.method = "pattern" =>
                 /\ Returned(l)
                 /\ l.result.email = email_patterns(l)[n]
                 /\ NumEq(l.result.confidence, 75)
                 /\ l.cnt.verify = n

\* the third candidate was the first found valid
C8_Witness ==
    \E w \in Workers :
        /\ Returned(wk[w]) /\ wk[w].result.method = "pattern"
        /\ Len(wk[w].attempted) = 3
        /\ wk[w].result.email = email_patterns(wk[w])[3]

\* C9: a public-source hit is returned (method public, confidence 60) only if
\* verify_email on it returned true; when it returned false the hit is dropped and
\* the call ends in the unverified-pattern fallback.
C9_PublicReverified ==
    \A w \in Workers :
        LET l == wk[w]
        IN /\ l.result.method = "public" =>
                 /\ l.pub_valid = "true"
                 /\ l.result.email = l.public_result.email
                 /\ l.public_result.email # None
                 /\ NumEq(l.result.confidence, 60)
           /\ l.pub_valid = "false" =>
                 /\ Returned(l)
                 /\ l.result.method = "unverified_pattern"
                 /\ l.result.email = l.attempted[1]

\* a public hit that failed its verification was dropped for the fallback
C9_Witness ==
    \E w \in Workers :
        /\ Returned(wk[w]) /\ wk[w].pub_valid = "false"
        /\ wk[w].public_result.email # None
        /\ wk[w].result.method = "unverified_pattern"

\* C10: when every candidate was found invalid and no public hit was accepted, the
\* call returns the first generated candidate, confidence 30, method
\* unverified_pattern.
C10_FallbackFirst ==
    \A w \in Workers :
        LET l == wk[w]
        IN (/\ Returned(l)
            /\ l.attempted # <<>>
            /\ \A i \in 1..Len(l.verdicts) : ~l.verdicts[i]
            /\ l.result.method # "public")
           => /\ l.result.email = email_patterns(l)[1]
              /\ NumEq(l.result.confidence, 30)
              /\ l.result.method = "unverified_pattern"

\* the fallback was taken after all eleven candidates and three public searches
C10_Witness ==
    \E w \in Workers :
        /\ Returned(wk[w]) /\ wk[w].result.method = "unverified_pattern"
        /\ Len(wk[w].attempted) = 11 /\ wk[w].cnt.pub = 3
        /\ wk[w].result.email = email_patterns(wk[w])[1]

\* an argument record with an empty (or None) first name, last name or company name
AnyEmpty(inp) == <<>> \in {inp.first, inp.last, inp.company}

\* C11: a discover_email call with an empty first name, last name or company name
\* returns the empty result at once: the step that makes the call leaves the call
\* returned with email None, confidence 0, method None and domain None, having
\* entered no stage and taken no permit, and changes no cache and nothing of the
\* rate limiter.
C11_MissingInput ==
    [][ \A w \in Workers :
          (/\ ncalls' = ncalls + 1
           /\ AnyEmpty(wk'[w].inp)
           /\ wk'[w].pc # "idle"
           /\ \A u \in Workers \ {w} : wk'[u] = wk[u])
          => /\ Returned(wk'[w])
             /\ wk'[w].result = EmptyResult
             /\ wk'[w].stages = <<>>
             /\ wk'[w].cnt = ZeroCounts
             /\ domain_cache' = domain_cache
             /\ mx_cache' = mx_cache
             /\ email_verification_cache' = email_verification_cache
             /\ rlvars' = rlvars ]_vars

\* a call without a first name has returned on an engine whose caches an earlier
\* call has filled
C11_Witness ==
    \E w \in Workers :
        /\ Returned(wk[w]) /\ AnyEmpty(wk[w].inp)
        /\ ncalls = 2
        /\ domain_cache # <<>> /\ email_verification_cache # <<>>

\* C12: when get_company_domain yields no domain, discover_email returns the empty
\* result (confidence 0) having entered only the domain stage: no provider request,
\* no pattern generation, no verify_email call and no public search is made.
C12_NoDomain ==
    \A w \in Workers :
        LET l == wk[w]
        IN (l.pc \notin {"idle", "rl_wait", "dom_search", "blocked"} /\ ~AnyEmpty(l.inp)
            /\ l.domain = None)
           => /\ Returned(l)
              /\ l.result = EmptyResult
              /\ l.stages = <<"domain">>
              /\ l.cnt.api = 0 /\ l.cnt.verify = 0 /\ l.cnt.pub = 0
              /\ l.attempted = <<>>

\* the web search for the domain raised and the call returned empty
C12_Witness ==
    \E w \in Workers :
        /\ Returned(wk[w]) /\ ~AnyEmpty(wk[w].inp)
        /\ wk[w].domain = None /\ wk[w].cnt.search = 1
        /\ wk[w].result = EmptyResult

\* the name piece the generator is documented to use: lower-cased, trimmed, and
\* cleaned of every character outside [a-z0-9]
NamePiece(name) == CleanAlnum(Strip(Lower(name)))

\* the separator each of the 11 patterns puts between its pieces
Separators == << DOT, <<>>, <<>>, <<>>, <<>>, <<"-">>, DOT, DOT, <<"_">>, <<>>, <<>> >>

\* the local part of a generated candidate: what precedes "@" + domain
LocalPart(candidate, domain) == SubSeq(candidate, 1, Len(candidate) - Len(domain) - 1)

IsGenerateCall == fcall.fn = "generate_email_patterns"

C14_CleanLocalParts ==
    IsGenerateCall =>
        \A k \in 1..Len(fcall.ret) :
            /\ EndsWith(fcall.ret[k], AT \o fcall.args[3])
            /\ \A c \in Range(LocalPart(fcall.ret[k], fcall.args[3])) :
                  IsLowerCh(c) \/ IsDigitCh(c) \/ c \in Range(Separators[k])

\* a direct verify_email call has returned
VerifyReturned == fcall.fn = "verify_email" /\ fcall.ret # <<>>

\* the network calls of the direct call that were of kind op
NetOf(op) == SelectSeq(fcall.net, LAMBDA ev : ev.op = op)

\* C15 as claimed: for every address, also an empty one, one without "@" or one
\* failing the syntax pattern, after verify_email(address) has returned b the
\* verification cache maps address to b.
C15_AlwaysCached ==
    VerifyReturned =>
        /\ fcall.args[1] \in DOMAIN email_verification_cache
        /\ email_verification_cache[fcall.args[1]] = fcall.ret[1]

\* C15 as amended: for every non-empty address that contains "@", also one failing
\* the syntax pattern, after verify_email(address) has returned b the verification
\* cache maps address to b; for an empty address or one without "@" it returns
\* false and the cache has no entry for the address.
C15_CachedUnlessNoAt ==
    VerifyReturned =>
        LET email == fcall.args[1]
        IN IF email = <<>> \/ ~Contains(email, AT)
           THEN /\ fcall.ret = <<FALSE>>
                /\ email \notin DOMAIN email_verification_cache
                /\ fcall.net = <<>>
           ELSE /\ email \in DOMAIN email_verification_cache
                /\ email_verification_cache[email] = fcall.ret[1]
                /\ ~SyntaxOk(email) => fcall.ret = <<FALSE>> /\ fcall.net = <<>>

\* an address failing the syntax pattern was rejected and cached, and so was a
\* well-formed one that SMTP rejected
C15_Witness ==
    /\ VerifyReturned
    /\ Contains(fcall.args[1], AT) /\ ~SyntaxOk(fcall.args[1])
    /\ email_verification_cache[fcall.args[1]] = FALSE
    /\ \E e \in DOMAIN email_verification_cache : SyntaxOk(e)

\* C16: when the DNS MX query of a verify_email call raises or returns no record,
\* or the domain is already on record as having no exchanger, the call returns
\* false, the verification cache holds false for the address and the MX cache holds
\* None for the domain, and the call opens no SMTP session.
C16_NoMxNoSmtp ==
    fcall.fn = "verify_email" =>
        LET email == fcall.args[1]
            domain == SplitSecond(email, "@")
            failed == \E k \in 1..Len(fcall.net) :
                         /\ fcall.net[k].op = "dns"
                         /\ \/ fcall.net[k].resp.kind = "raise"
                            \/ fcall.net[k].resp.records = <<>>
            known == /\ Contains(email, AT) /\ SyntaxOk(email)
                     /\ domain \in DOMAIN mx_cache /\ mx_cache[domain] = NoMx
                     /\ fcall.ret # <<>>
        IN (failed \/ known) =>
              /\ fcall.ret = <<FALSE>>
              /\ email \in DOMAIN email_verification_cache
              /\ email_verification_cache[email] = FALSE
              /\ domain \in DOMAIN mx_cache /\ mx_cache[domain] = NoMx
              /\ NetOf("smtp") = <<>>
              /\ \A w \in Workers : wk[w].pc # "v_smtp"

\* a call whose DNS query raised has returned, after an earlier call on the same
\* engine
C16_Witness ==
    /\ VerifyReturned
    /\ \E k \in 1..Len(fcall.net) :
          fcall.net[k].op = "dns" /\ fcall.net[k].resp.kind = "raise"
    /\ ncalls >= 2

\* C17: a verify_email call on a well-formed address whose domain has a mail
\* exchanger opens exactly one SMTP session unless the address is cached, and it
\* returns true exactly when RCPT TO was answered 250 or 251 or the dialogue
\* raised, false exactly when the dialogue completed with another reply code.
C17_SmtpVerdict ==
    VerifyReturned =>
        LET email == fcall.args[1]
            domain == SplitSecond(email, "@")
            smtp == NetOf("smtp")
        IN /\ Len(smtp) <= 1
           /\ (/\ Contains(email, AT) /\ SyntaxOk(email)
               /\ domain \in DOMAIN mx_cache /\ mx_cache[domain] # NoMx
               /\ fcall.net # <<>>)
              => Len(smtp) = 1
           /\ Len(smtp) = 1 =>
                 /\ Contains(email, AT) /\ SyntaxOk(email)
                 /\ domain \in DOMAIN mx_cache /\ mx_cache[domain] # NoMx
                 /\ fcall.ret = <<TRUE>> <=>
                       \/ smtp[1].resp.kind = "raise"
                       \/ smtp[1].resp.kind = "code" /\ smtp[1].resp.code \in {250, 251}
                 /\ fcall.ret = <<FALSE>> <=>
                       /\ smtp[1].resp.kind = "code"
                       /\ smtp[1].resp.code \notin {250, 251}

\* a call returned true because its SMTP dialogue raised, the exchanger being the
\* lowest-preference record of the DNS answer
C17_Witness ==
    /\ VerifyReturned
    /\ fcall.ret = <<TRUE>>
    /\ Len(fcall.net) = 2
    /\ fcall.net[2].op = "smtp" /\ fcall.net[2].resp.kind = "raise"
    /\ mx_cache[SplitSecond(fcall.args[1], "@")] = "mx1.mail."

\* C18: a second discover_email call with the arguments of the first, on the same
\* engine, issues no web search for the domain, and no DNS MX query and no SMTP
\* session for a domain or an address the caches already hold.
C18_WarmCache ==
    [][ \A w \in Workers :
          /\ (/\ ncalls = 1 /\ ncalls' = 2
              /\ Returned(wk[w]) /\ ~AnyEmpty(wk[w].inp)
              /\ wk'[w].inp = wk[w].inp)
             => wk'[w].cont # "dom_search"
          /\ wk'[w].pc = "v_dns"
                => SplitSecond(wk'[w].vemail, "@") \notin DOMAIN mx_cache'
          /\ wk'[w].pc \in {"v_dns", "v_smtp"}
                => wk'[w].vemail \notin DOMAIN email_verification_cache' ]_vars

\* ------------------------------------------- claims on errors and providers
\* C23: every blocking network call of a worker carries a timeout: no
\* discover_email call is ever left waiting without bound for a server that does
\* not answer.
C23_EveryCallTimesOut == \A w \in Workers : wk[w].pc # "blocked"

\* the last network call of the frame raised in operation op
Raised(l, op) == l.last = [op |-> op, out |-> "raise"]

\* the verdict verify_email gave last in this frame, "none" before the first
LastVerdict(l) ==
    IF l.vsite = "pattern"
    THEN IF l.verdicts = <<>> THEN "none"
         ELSE IF l.verdicts[Len(l.verdicts)] THEN "true" ELSE "false"
    ELSE l.pub_valid

\* C24, as stated: after a network or protocol error in any stage, that stage has
\* yielded its no-result outcome (no domain, no provider email, the candidate not
\* verified, no public hit) and the call goes on with the stages that follow.
C24_ErrorsFallThrough ==
    \A w \in Workers :
        LET l == wk[w]
        IN /\ Raised(l, "search") =>
                 l.domain = None /\ "api" \in Range(l.stages)
           /\ (Raised(l, "hunter") \/ Raised(l, "validator")) =>
                 l.result.email = None /\ ~Returned(l)
           /\ (Raised(l, "dns") \/ Raised(l, "smtp")) =>
                 LastVerdict(l) = "false"
           /\ Raised(l, "pub") =>
                 l.result.method \in {NoMethod, "unverified_pattern"}

\* C24, amended: an error never leaves the call in any state but its next
\* rate-limited step or its return; a failed provider request, DNS lookup or
\* public search counts as that step's no-result outcome and the call goes on; a
\* failed web search for the domain ends the call with the empty result, and a
\* failed SMTP dialogue counts the candidate as valid and returns it.
C24_ErrorsContained ==
    \A w \in Workers :
        LET l == wk[w]
        IN /\ l.last.out = "raise" => l.pc \in {"rl_wait", "done"}
           /\ Raised(l, "search") =>
                 /\ Returned(l) /\ l.result = EmptyResult
                 /\ l.stages = <<"domain">>
           /\ Raised(l, "hunter") =>
                 /\ l.result.email = None
                 /\ IF email_validator_key
                    THEN l.pc = "rl_wait" /\ l.cont = "validator"
                    ELSE "pattern" \in Range(l.stages)
           /\ Raised(l, "validator") =>
                 l.result.email = None /\ "pattern" \in Range(l.stages) /\ ~Returned(l)
           /\ Raised(l, "dns") =>
                 /\ LastVerdict(l) = "false"
                 /\ IF l.vsite = "pattern"
                    THEN l.pc = "rl_wait" /\ l.cont \in {"verify", "pub_search"}
                    ELSE Returned(l) /\ l.result.method \in {NoMethod, "unverified_pattern"}
           /\ Raised(l, "smtp") =>
                 /\ LastVerdict(l) = "true"
                 /\ Returned(l) /\ l.result.email = l.vemail
                 /\ l.result.method \in {"pattern", "public"}
           /\ Raised(l, "pub") =>
                 /\ Returned(l)
                 /\ l.result.method \in {NoMethod, "unverified_pattern"}

\* a call has returned the first pattern unverified after the DNS lookup of its
\* candidates failed and its public search raised
C24_Witness ==
    \E w \in Workers :
        /\ Raised(wk[w], "pub") /\ Returned(wk[w])
        /\ wk[w].result.method = "unverified_pattern"
        /\ wk[w].verdicts # <<>>
        /\ mx_cache # <<>> /\ \A d \in DOMAIN mx_cache : mx_cache[d] = NoMx

\* C25: when the web search inside get_company_domain raises, the resolver gives
\* None: discover_email returns the empty result, no domain is set, and nothing,
\* the '<name>.com' guess included, is cached for the company.
C25_SearchErrorGivesNone ==
    \A w \in Workers :
        LET l == wk[w]
        IN Raised(l, "search") =>
              /\ l.domain = None /\ l.result.domain = None
              /\ Returned(l) /\ l.result = EmptyResult
              /\ NormalizeCompany(l.inp.company) \notin DOMAIN domain_cache

\* the web search of a second call raised, as that of the first had, and the
\* call returned with nothing cached
C25_Witness ==
    \E w \in Workers :
        /\ Raised(wk[w], "search") /\ Returned(wk[w])
        /\ ncalls = 2 /\ wk[w].cnt.search = 1
        /\ wk[w].inp.company = ACME_INC_PADDED
        /\ domain_cache = <<>>

\* C26: when the web search completes without a surviving candidate,
\* get_company_domain returns, and caches under the normalized company name, the
\* lower-cased company name with every character outside [a-z0-9] removed,
\* followed by '.com': 'Acme Inc' gives 'acmeinc.com'.
C26_GuessedDomain ==
    \A w \in Workers :
        LET l == wk[w]
            key == Lower(Strip(l.inp.company))
        IN l.last = [op |-> "search", out |-> "guess"] =>
              /\ l.domain = CleanAlnum(Lower(l.inp.company)) \o <<".", "c", "o", "m">>
              /\ l.result.domain = l.domain
              /\ key \in DOMAIN domain_cache /\ domain_cache[key] = l.domain
              /\ l.inp.company = <<"A","c","m","e"," ","I","n","c">> =>
                    l.domain = <<"a","c","m","e","i","n","c",".","c","o","m">>

\* the search for 'Acme Inc' found no candidate and the guess is in the cache
C26_Witness ==
    \E w \in Workers :
        /\ wk[w].last = [op |-> "search", out |-> "guess"]
        /\ wk[w].inp.company = ACME_INC
        /\ wk[w].domain = acmeinc_com
        /\ wk[w].pc = "rl_wait"

\* the permits of a frame that were used up by its web searches, verify_email
\* calls and public searches, the one just taken for such a step included
NonApiPermits(l) ==
    l.cnt.search + l.cnt.verify + l.cnt.pub
       + (IF l.pc \in {"dom_search", "verify", "pub_search"} THEN 1 ELSE 0)

\* C27: find_email_via_api waits for a permit for, and contacts, a provider only
\* if that provider's key is set; with no key set it makes no request, takes no
\* permit, and discover_email goes straight on to the pattern stage with no email.
C27_ProvidersNeedKeys ==
    \A w \in Workers :
        LET l == wk[w]
        IN /\ (l.pc = "hunter" \/ l.cont = "hunter" \/ l.last.op = "hunter"
                  \/ l.provider = "hunter") => hunter_api_key
           /\ (l.pc = "validator" \/ l.cont = "validator" \/ l.last.op = "validator"
                  \/ l.provider = "validator") => email_validator_key
           /\ (~hunter_api_key /\ ~email_validator_key) =>
                 /\ l.cnt.api = 0
                 /\ l.cnt.permits = NonApiPermits(l)
                 /\ l.result.method # "api"
                 /\ "api" \in Range(l.stages) => "pattern" \in Range(l.stages)

\* with no key set a call went through the provider stage to the pattern stage
\* and returned
C27_Witness ==
    \E w \in Workers :
        /\ ~hunter_api_key /\ ~email_validator_key
        /\ Returned(wk[w]) /\ "api" \in Range(wk[w].stages)
        /\ wk[w].cnt.permits >= 2 /\ wk[w].cnt.api = 0

\* C28: the finder provider is asked before the validator; an email from the
\* finder ends the call without a request to the validator; when the finder
\* raises or has no email, the validator (if its key is set) is asked next.
C28_FinderThenValidator ==
    \A w \in Workers :
        LET l == wk[w]
        IN /\ (l.pc = "validator" \/ l.cont = "validator") =>
                 l.cnt.api = (IF hunter_api_key THEN 1 ELSE 0)
           /\ l.provider = "hunter" =>
                 /\ l.cnt.api = 1 /\ Returned(l)
                 /\ l.result.method = "api"
           /\ l.provider = "validator" =>
                 l.cnt.api = (IF hunter_api_key THEN 2 ELSE 1)
           /\ l.last.op = "hunter" =>
                 IF l.last.out = "email"
                 THEN Returned(l) /\ l.provider = "hunter"
                 ELSE l.pc # "blocked" =>
                        /\ l.result.email = None
                        /\ IF email_validator_key
                           THEN l.pc = "rl_wait" /\ l.cont = "validator"
                           ELSE "pattern" \in Range(l.stages)

\* the finder request raised and the call waits for its permit for the validator
C28_Witness ==
    \E w \in Workers :
        /\ Raised(wk[w], "hunter")
        /\ wk[w].pc = "rl_wait" /\ wk[w].cont = "validator"
        /\ wk[w].cnt.api = 1

\* --------------------------------------------------- claims on process_csv
\* an Email field that holds an address
NonEmptyField(cell) == cell \notin {NaN, <<>>}

\* the rows a worker thread is working on
InHand(t) == th[t].pc \in {"discover", "lock", "write", "format", "persist"}

RECURSIVE TotalInvoked(_)
TotalInvoked(n) == IF n = 0 THEN 0 ELSE invoked[n - 1] + TotalInvoked(n - 1)

\* C19: a record whose Email field is non-empty in the input is never put on the
\* queue, is never handed to discover_email, and keeps its Email, Email Confidence,
\* Email Method and Company Domain in the dataframe and in every persisted output;
\* every other record is discovered at most once, and exactly once when process_csv
\* has finished (5 records of which 2 have an email: 3 discoveries).
C19_SkipRowsWithEmail ==
    main_pc \notin {"off", "start", "failed"} =>
        /\ \A i \in Rows :
              NonEmptyField(df_in[i].email) =>
                 /\ invoked[i] = 0
                 /\ i \notin Range(queue)
                 /\ i \notin DOMAIN results
                 /\ \A t \in CsvThreads : InHand(t) => th[t].i # i
                 /\ df[i] = df_in[i]
                 /\ output_file # <<>> => output_file[i] = df_in[i]
        /\ \A i \in Rows : invoked[i] <= 1
        /\ main_pc = "done" =>
              /\ \A i \in Rows : ~NonEmptyField(df_in[i].email) => invoked[i] = 1
              /\ TotalInvoked(NRows)
                   = NRows - Cardinality({ i \in Rows : NonEmptyField(df_in[i].email) })

\* process_csv has finished a file of which 2 records came with an email, in one
\* batch, with 3 discoveries of which one found an email
C19_Witness ==
    /\ main_pc = "done" /\ batch_size = NRows
    /\ Cardinality({ i \in Rows : NonEmptyField(df_in[i].email) }) = 2
    /\ TotalInvoked(NRows) = 3
    /\ \E i \in Rows : invoked[i] = 1 /\ output_file[i].method = "pattern"
    /\ \E i \in Rows : invoked[i] = 0 /\ output_file[i] = df_in[i]

\* C20: a worker writes a result back and persists the dataframe only while it
\* holds the batch lock, and at most one worker is between its write-back and the
\* end of its save; every output persisted is the dataframe of that moment and
\* holds the result of every record whose write-back came before, so no completed
\* record is missing from a later output.
C20_PersistUnderLock ==
    [][ /\ \A t \in CsvThreads :
              th'[t].pc \in {"write", "format", "persist"} => csv_lock' = t
        /\ Cardinality({ t \in CsvThreads : th'[t].pc \in {"write", "format", "persist"} }) <= 1
        /\ (df' # df /\ main_pc # "start")
              => \E t \in CsvThreads : csv_lock = t /\ th[t].pc = "write"
        /\ output_file' # output_file =>
              /\ output_file' = df'
              /\ \A i \in DOMAIN results : output_file'[i] = WriteBack(results[i])
        /\ \A i \in DOMAIN results' : df'[i] = WriteBack(results'[i]) ]_vars

\* one worker is about to write the file, holding the lock, while another waits for
\* the lock with its result and a third has already persisted its record
C20_Witness ==
    \E t, u \in CsvThreads :
        /\ th[t].pc = "persist" /\ csv_lock = t
        /\ th[u].pc = "lock"
        /\ Cardinality(DOMAIN results) >= 2
        /\ output_file # <<>>

\* a worker thread that is running
Running(t) == th[t].pc \notin {"unborn", "exit"}

\* C21: the batches are separated by a barrier: a record is enqueued and a worker
\* thread is started only when no worker thread of an earlier batch is still
\* running, and every record queued or in a worker's hand belongs to the current
\* batch.
C21_BatchBarrier ==
    [][ /\ (\/ \E t \in CsvThreads : ~Running(t) /\ th'[t].pc = "loop"
            \/ Len(queue') > Len(queue))
           => /\ \A t \in CsvThreads : ~Running(t)
              /\ queue = <<>>
        /\ \A t \in CsvThreads :
              (Running(t) /\ th'[t] # th[t]) => main_pc = "join" /\ main_pc' = "join"
        /\ \A i \in Range(queue') \cup { th'[t].i : t \in { u \in CsvThreads : InHand(u)' } } :
              /\ batch_start' <= i
              /\ i < batch_start' + batch_size' ]_vars

\* the workers of the second batch are at work after those of the first were joined
C21_Witness ==
    /\ main_pc = "join" /\ batch_start > 0
    /\ \E t \in CsvThreads : InHand(t) /\ th[t].i >= batch_start
    /\ output_file # <<>>

\* C22: after 3 record-level failures in a row within a batch, the worker that
\* takes the next record from the queue has paused for an extended cooldown, one
\* longer than the delays that separate two records anyway, before it calls
\* discover_email.
C22_CooldownAfterFailures ==
    [][ \A t \in CsvThreads :
           (th[t].pc = "get" /\ th'[t].pc = "discover" /\ fail_run >= 3)
              => th'[t].paused > pre_delay + post_delay ]_vars

\* the columns of the file let process_csv resolve First Name, Last Name and
\* Company Name, each under its own name or one of its synonyms
Reconcilable(columns) ==
    /\ columns \cap {"First Name", "FirstName", "Given Name", "Name"} # {}
    /\ columns \cap {"Last Name", "LastName", "Surname", "Family Name"} # {}
    /\ columns \cap {"Company Name", "Company", "Organization", "Employer"} # {}

\* C29: when the input file is missing or its columns cannot be reconciled,
\* process_csv ends in failure with its first step: no discover_email call was
\* made, no thread was started, nothing was put on the queue and the output file
\* was never written; and with a file that parses and reconciles it does not fail.
C29_InputErrorsAbort ==
    /\ (main_pc \notin {"off", "start"}
        /\ (~input_file.exists \/ ~Reconcilable(input_file.columns)))
          => main_pc = "failed"
    /\ main_pc = "failed" =>
          /\ ~input_file.exists \/ ~input_file.parses \/ ~Reconcilable(input_file.columns)
          /\ output_file = <<>>
          /\ \A i \in Rows : invoked[i] = 0
          /\ \A t \in CsvThreads : th[t] = Unborn
          /\ queue = <<>> /\ results = <<>> /\ df = <<>>
          /\ \A w \in Workers : wk[w].pc = "idle"
          /\ ncalls = 0 /\ grants = <<>>

\* process_csv has failed on a file that exists and parses but has no company
\* column under any name
C29_Witness ==
    /\ main_pc = "failed"
    /\ input_file.exists /\ input_file.parses
    /\ "Last Name" \in input_file.columns
    /\ ~Reconcilable(input_file.columns)

\* ------------------------------------------------- claims on shared caches
\* C31: under any interleaving of workers each normalized company name is written
\* to the domain cache at most once (a search that completes writes only a name
\* the cache does not hold yet), and an entry once written is never changed or
\* removed.
C31_DomainWrittenOnce ==
    [][ /\ \A k \in DOMAIN domain_cache :
              k \in DOMAIN domain_cache' /\ domain_cache'[k] = domain_cache[k]
        /\ \A w \in Workers :
              (wk[w].pc = "dom_search" /\ wk'[w].last.op = "search"
                  /\ wk'[w].last.out \in {"hit", "guess"})
                 => Lower(Strip(wk[w].inp.company)) \notin DOMAIN domain_cache ]_vars

\* the workers between their lookup of a cache, which missed, and their write to it
InDomainCheckThenWrite ==
    { w \in Workers : wk[w].pc = "dom_search"
                      \/ (wk[w].pc = "rl_wait" /\ wk[w].cont = "dom_search") }
InMxCheckThenWrite == { w \in Workers : wk[w].pc = "v_dns" }
InVerificationCheckThenWrite == { w \in Workers : wk[w].pc \in {"v_dns", "v_smtp"} }

\* C32: the check-then-write sequences of concurrent workers on the domain cache,
\* on the MX cache and on the verification cache are serialized: at no time are
\* two workers inside such a sequence on the same cache.
C32_CacheWritesSerialized ==
    /\ Cardinality(InDomainCheckThenWrite) <= 1
    /\ Cardinality(InMxCheckThenWrite) <= 1
    /\ Cardinality(InVerificationCheckThenWrite) <= 1

\* C33: when get_company_domain has produced no domain for a company, the domain
\* cache holds the normalized company name with the not-found marker, so that a
\* later call finds it there.
C33_NotFoundCached ==
    \A w \in Workers :
        LET l == wk[w]
            key == Lower(Strip(l.inp.company))
        IN (l.pc = "done" /\ l.stages # <<>> /\ l.domain = None)
              => key \in DOMAIN domain_cache /\ domain_cache[key] = None

\* ------------------------------------------------ claims on the worker loop
\* the threads that have taken an index from the queue and not finished with it
Holding == { t \in CsvThreads : InHand(t) \/ th[t].pc = "hung" }

\* every index is in the queue once or with one thread, never both, and
\* discover_email was called at most once for it
EachIndexOnce ==
    /\ \A t, u \in Holding : t # u => th[t].i # th[u].i
    /\ \A t \in Holding : th[t].i \notin Range(queue)
    /\ \A j, k \in 1..Len(queue) : j # k => queue[j] # queue[k]
    /\ \A i \in Rows : invoked[i] <= 1

\* C34: within a batch each enqueued index is taken by exactly one worker and
\* discover_email is called at most once for it, and no worker is left unable to
\* terminate: every worker goes on until the queue is empty and the batch reaches
\* its join.
C34_QueueDiscipline ==
    main_pc \in {"batch", "join", "done"} =>
        /\ EachIndexOnce
        /\ \A t \in CsvThreads : th[t].pc # "hung"

\* ------------------------------------------- claims on discover_email's end
\* C35: a discover_email call with non-empty first name, last name and company
\* whose domain stage gave a domain returns a result with a non-empty email and a
\* method: the pattern generator gave its 11 candidates, so the fallback had a
\* first attempted pattern to return.
C35_EmailOnceDomainResolved ==
    \A w \in Workers :
        LET l == wk[w]
        IN (l.pc = "done" /\ l.vsite # "direct"
            /\ l.inp.first # <<>> /\ l.inp.last # <<>> /\ l.inp.company # <<>>
            /\ l.domain # <<>>)
           => /\ l.result.email # <<>>
              /\ l.result.method \in {"api", "pattern", "public", "unverified_pattern"}
              /\ l.result.domain = l.domain
              /\ l.result.method \in {"public", "unverified_pattern"}
                    => Len(l.attempted) = 11 /\ l.cnt.verify >= 11

\* a call for a first name of two spaces has returned the first pattern unverified
C35_Witness ==
    \E w \in Workers :
        /\ wk[w].pc = "done"
        /\ wk[w].inp.first = <<" ", " ">>
        /\ wk[w].result.method = "unverified_pattern"
        /\ wk[w].result.email = <<".","d","o","e","@","a","c","m","e",".","c","o","m">>

\* the permits a frame has used for its web searches, provider requests,
\* verify_email calls and public searches
UsedPermits(l) == l.cnt.search + l.cnt.api + l.cnt.verify + l.cnt.pub

\* C36: every verify_email call of discover_email is made under a permit taken
\* for it alone, whether or not the verification cache holds the answer: when the
\* call begins, the frame holds one permit more than it has used and has made no
\* network call since taking it.
C36_PermitPerVerify ==
    [][ \A w \in Workers :
           (wk[w].vsite # "direct" /\ wk'[w].cnt.verify = wk[w].cnt.verify + 1)
              => /\ wk[w].pc = "verify"
                 /\ wk[w].cnt.permits = UsedPermits(wk[w]) + 1
                 /\ wk[w].cnt.blk = 0 ]_vars

\* a second call found the domain and its first candidate's verdict in the caches:
\* it made no network call and yet used one permit
C36_Witness ==
    \E w \in Workers :
        /\ wk[w].pc = "done" /\ ncalls = 2
        /\ wk[w].result.method = "pattern"
        /\ wk[w].cnt.search = 0 /\ wk[w].cnt.blk = 0
        /\ wk[w].cnt.verify = 1 /\ wk[w].cnt.permits = 1
        /\ wk[w].vemail \in DOMAIN email_verification_cache

T_skip_domains ==
    << <<"l","i","n","k","e","d","i","n",".","c","o","m">>,
       <<"f","a","c","e","b","o","o","k",".","c","o","m">>,
       <<"t","w","i","t","t","e","r",".","c","o","m">>,
       <<"i","n","s","t","a","g","r","a","m",".","c","o","m">>,
       <<"y","o","u","t","u","b","e",".","c","o","m">>,
       <<"g","l","a","s","s","d","o","o","r",".","c","o","m">>,
       <<"w","i","k","i","p","e","d","i","a",".","o","r","g">>,
       <<"c","r","u","n","c","h","b","a","s","e",".","c","o","m">> >>

\* the loop over results[:5]: lower-cased netlocs outside the skip list, "www."
\* removed; no test of likeness to the company name
RECURSIVE T_potential_domains(_)
T_potential_domains(netlocs) ==
    IF netlocs = <<>> THEN <<>>
    ELSE LET domain == Lower(Head(netlocs))
             rest == T_potential_domains(Tail(netlocs))
         IN IF \E k \in 1..Len(T_skip_domains) : Contains(domain, T_skip_domains[k])
            THEN rest
            ELSE <<Remove(domain, WWW)>> \o rest

\* EmailFinderTest.get_company_domain(company_name) for one response of the search
T_get_company_domain(company_name, resp) ==
    IF company_name = <<>> \/ resp.kind = "raise" THEN None
    ELSE LET found == T_potential_domains(SubSeq(resp.netlocs, 1, MinOf(5, Len(resp.netlocs))))
         IN IF found # <<>> THEN found[1]
            ELSE CleanAlnum(Lower(company_name)) \o DOTCOM

\* EmailFinderTest.verify_email(email) for one DNS answer and one SMTP dialogue
T_verify_email(email, dns, smtp) ==
    IF email = <<>> \/ ~Contains(email, AT) THEN FALSE
    ELSE IF ~SyntaxOk(email) THEN FALSE
    ELSE IF dns.kind = "raise" THEN FALSE
    ELSE IF dns.records = <<>> THEN FALSE
    ELSE IF smtp.kind = "raise" THEN TRUE
    ELSE smtp.code \in {250, 251}

\* EmailFinderTest.try_hunter_api: the finder's answer; the record without an email
\* stands for None (no key, no email in the payload, an exception)
T_try_hunter_api(hunter_key, resp) ==
    IF hunter_key /\ resp.kind = "email"
    THEN [email |-> resp.email, confidence |-> Times100(resp.score), method |-> "hunter_api"]
    ELSE [email |-> None, confidence |-> Num(0), method |-> NoMethod]

\* the test of EmailFinderTest.search_public_sources on one found address
T_might_belong(email, first_name, last_name) ==
    LET username == Lower(SplitHead(email, "@"))
        first_lower == Lower(first_name)
        last_lower == Lower(last_name)
    IN \/ Contains(username, first_lower)
       \/ Contains(username, last_lower)
       \/ Contains(username, Initial(first_lower) \o last_lower)
       \/ Contains(username, first_lower \o Initial(last_lower))

\* EmailFinderTest.search_public_sources: the first address that passes; the record
\* without an email stands for None (nothing passes, the request raises)
T_search_public_sources(first_name, last_name, resp) ==
    IF resp.kind = "raise" THEN [email |-> None, confidence |-> Num(0), method |-> NoMethod]
    ELSE LET hits == SelectSeq(resp.emails,
                               LAMBDA e : T_might_belong(e, first_name, last_name))
         IN IF hits = <<>> THEN [email |-> None, confidence |-> Num(0), method |-> NoMethod]
            ELSE [email |-> hits[1], confidence |-> Num(60), method |-> "public_search"]

\* EmailFinderTest.find_email(first_name, last_name, company_name) when the services
\* answer as env says
find_email(p, env, hunter_key) ==
    LET domain == T_get_company_domain(p.company, env.search)
        api_result == T_try_hunter_api(hunter_key, env.hunter)
        patterns == generate_email_patterns(p.first, p.last, domain)
        valid == SelectSeq(patterns, LAMBDA e : T_verify_email(e, env.dns, env.smtp))
        public_result == T_search_public_sources(p.first, p.last, env.pub)
    IN IF domain = None THEN [email |-> None, confidence |-> Num(0)]
       ELSE IF api_result.email # None
       THEN [email |-> api_result.email, confidence |-> api_result.confidence]
       ELSE IF valid # <<>> THEN [email |-> valid[1], confidence |-> Num(75)]
       ELSE IF public_result.email # None
       THEN [email |-> public_result.email, confidence |-> public_result.confidence]
       ELSE IF patterns # <<>> THEN [email |-> patterns[1], confidence |-> Num(30)]
       ELSE [email |-> None, confidence |-> Num(0)]

\* what the services answer during one comparison: every request to a service gets
\* that service's one answer
EqEnvs ==
    [ search : { r \in DomainSearchResponses : r.kind # "silent" },
      hunter : { r \in HunterResponses : r.kind \in {"raise", "empty"} \/
                                         (r.kind = "email" /\ r.score = <<87, 100>>) },
      validator : { r \in ValidatorResponses : r.kind = "status" },
      dns : { r \in DnsResponses : r.kind = "ok" },
      smtp : { r \in SmtpResponses : r.kind = "raise" \/ r.code \in {250, 550} },
      pub : { r \in PublicSearchResponses : r.kind = "ok" } ]

\* the people both pipelines are asked about
EqPersons == { p \in Persons : p.company = ACME_INC }

\* the environment of the comparison under way
env == fcall.args[2]

\* both pipelines are given p on fresh instances with the same keys: the engine
\* starts its call, the test pipeline's result for the same answers is recorded
EqCall(w, p, e) ==
    /\ ncalls = 0
    /\ DiscoverCall(w, p)
    /\ fcall' = [fn |-> "find_email", args |-> <<p, e>>,
                 ret |-> find_email(p, e, hunter_api_key), net |-> <<>>]
    /\ UNCHANGED <<rlvars, cvars, xvars>>

Comparing == fcall.fn = "find_email"

EqNext ==
    \/ \E p \in EqPersons, e \in EqEnvs : EqCall(1, p, e)
    \/ Acquire(1)
    \/ Comparing /\ DomainSearch(1, env.search)
    \/ Comparing /\ Hunter(1, env.hunter)
    \/ Comparing /\ Validator(1, env.validator)
    \/ VerifyBegin(1)
    \/ Comparing /\ VerifyDns(1, env.dns)
    \/ Comparing /\ VerifySmtp(1, env.smtp)
    \/ Comparing /\ PublicSearch(1, env.pub)

SpecEq == Init /\ [][EqNext]_vars

\* ------------------------------------------------- claims on the test pipeline

\* the engine's call has returned
EngineReturned == Comparing /\ wk[1].pc = "done"

\* C38: for the same inputs and the same answers of the external services,
\* EmailFinderTest.find_email returns the same email and the same confidence as
\* EmailFinder.discover_email
C38_TestPipelineAgrees ==
    EngineReturned =>
        /\ wk[1].result.email = fcall.ret.email
        /\ wk[1].result.confidence = fcall.ret.confidence

\* ------------------------------------------- scraper_tool.py: process_csv

\* rows of the scraper's input file
NScrapeRows == 4

max_consecutive_failures == 3

max_retries == 2

\* a row of the file: whether it has a LinkedIn Profile URL, and its LinkedIn
\* Summary cell ("" after fillna)
ScrapeCells ==
    { [url |-> TRUE, summary |-> ""], [url |-> FALSE, summary |-> ""],
      [url |-> TRUE, summary |-> "old summary"] }

ScrapeFiles == [1..NScrapeRows -> ScrapeCells]

ScrapeBatchSizes == {2, 5}

\* what one scrape_profile call gives: data with a name or a title, data with
\* neither (its own handlers return {}), or an exception out of a handler
ScrapeOutcomes == {"data", "nothing", "raise"}

\* what generate_summary followed by the write gives: the summary, the marker of an
\* empty summary, the marker of an exception
SummaryCells == {"summary", "[SUMMARY GENERATION FAILED]", "[SUMMARY ERROR]"}

\* process_csv(input_file, output_file, linkedin_scraper, batch_size) is called on
\* a readable file with the LinkedIn Profile column, with start_row=0
SC_Call(file, size) ==
    /\ scraper.pc = "off"
    /\ scraper' = [ScraperOff EXCEPT !.pc = "batch", !.df = file, !.batch_size = size]
    /\ UNCHANGED <<rlvars, dvars, fcall, cvars, connector>>

\* for i in range(start_row, total_rows, batch_size): the next batch, or return df
SC_Batch ==
    /\ scraper.pc = "batch"
    /\ scraper' = IF scraper.i >= Len(scraper.df)
                  THEN [scraper EXCEPT !.pc = "done"]
                  ELSE [scraper EXCEPT !.pc = "row", !.j = scraper.i,
                                       !.batch_end = MinOf(scraper.i + scraper.batch_size,
                                                           Len(scraper.df))]
    /\ UNCHANGED <<rlvars, dvars, fcall, cvars, connector>>

\* history: the row being left is logged with what became of it, a failed row with
\* the number of scrape_profile calls made for it
Logged_row(sc, kind) ==
    [sc EXCEPT !.log = Append(@, [kind |-> kind,
                                  attempts |-> IF kind = "fail" THEN sc.retry ELSE 0])]

\* for j in range(i, batch_end): the batch is over (it is saved), or row j is
\* skipped for want of a URL or because it has a summary, or its scraping begins
SC_Row ==
    /\ scraper.pc = "row"
    /\ LET j == scraper.j
       IN scraper' =
            IF j >= scraper.batch_end
            THEN [scraper EXCEPT !.pc = "batch", !.i = @ + scraper.batch_size]
            ELSE IF ~scraper.df[j + 1].url \/ scraper.df[j + 1].summary # ""
            THEN [Logged_row([scraper EXCEPT !.retry = 0], "skip") EXCEPT !.j = j + 1]
            ELSE [scraper EXCEPT !.pc = "scrape", !.retry = 0]
    /\ UNCHANGED <<rlvars, dvars, fcall, cvars, connector>>

\* mutant: the break is taken only once the counter has passed the threshold
TooManyFailures_Late(consecutive_failures) ==
    consecutive_failures > max_consecutive_failures

\* if consecutive_failures >= max_consecutive_failures
TooManyFailures(consecutive_failures) ==
    consecutive_failures >= max_consecutive_failures

\* the safety check at the end of a row's body: the extended break and the reset
SafetyCheck(sc) ==
    IF TooManyFailures(sc.consecutive_failures)
    THEN [sc EXCEPT !.consecutive_failures = 0,
                    !.log = Append(@, [kind |-> "cool", attempts |-> 0])]
    ELSE sc

\* one scrape_profile call of the retry loop and, when it is the row's last, the
\* rest of the row's body: the summary or the failure marker, the saves, the
\* safety check
SC_Scrape(outcome, cell) ==
    /\ scraper.pc = "scrape"
    /\ LET j == scraper.j
           tried == [scraper EXCEPT !.retry = @ + 1]
           left == [tried EXCEPT !.pc = "row", !.j = j + 1]
       IN scraper' =
            IF outcome = "raise"
            THEN Logged_row(left, "raise")
            ELSE IF outcome = "data"
            THEN SafetyCheck(Logged_row([left EXCEPT !.consecutive_failures = 0,
                                                     !.df[j + 1].summary = cell],
                                        "ok"))
            ELSE IF scraper.retry < max_retries
            THEN tried
            ELSE SafetyCheck(Logged_row([left EXCEPT !.consecutive_failures = @ + 1,
                                                     !.df[j + 1].summary = "[SCRAPING FAILED]"],
                                        "fail"))
    /\ UNCHANGED <<rlvars, dvars, fcall, cvars, connector>>

SCNext ==
    \/ \E file \in ScrapeFiles, size \in ScrapeBatchSizes : SC_Call(file, size)
    \/ SC_Batch
    \/ SC_Row
    \/ \E outcome \in ScrapeOutcomes, cell \in SummaryCells : SC_Scrape(outcome, cell)

SpecSC == MTInit /\ [][SCNext]_vars

\* --------------------------------------------- claims on the scraper's cooldown

\* the position of the last successful scrape or cooldown among the first k log
\* entries, 0 when there is none
LastReset(log, k) ==
    LET resets == { m \in 1..k : log[m].kind \in {"ok", "cool"} }
    IN IF resets = {} THEN 0 ELSE CHOOSE m \in resets : \A n \in resets : n <= m

\* the rows among the first k log entries that failed all their attempts since
\* the last successful scrape or cooldown
FailedSince(log, k) ==
    Cardinality({ m \in (LastReset(log, k) + 1)..k : log[m].kind = "fail" })

NConnRows == 4

\* the largest max_requests argument
MaxRequests == 2

max_consecutive_errors == 3

conn_batch_size == 2

\* a row of the file: whether it has a LinkedIn Profile URL, and its Connection
\* Status cell
ConnCells ==
    { [url |-> TRUE, status |-> ""], [url |-> FALSE, status |-> ""],
      [url |-> TRUE, status |-> "request_sent"] }

ConnFiles == [1..NConnRows -> ConnCells]

\* what send_connection_request returns: the request was sent, nothing was to be
\* sent, a button was not found, an error status; or an exception out of its handler
SendResults ==
    { [kind |-> "return", status |-> "request_sent", success |-> TRUE],
      [kind |-> "return", status |-> "already_connected", success |-> TRUE],
      [kind |-> "return", status |-> "send_button_not_found", success |-> FALSE],
      [kind |-> "return", status |-> "error: ...", success |-> FALSE],
      [kind |-> "raise", status |-> "Error: ...", success |-> FALSE] }

\* "error" in result["status"].lower()
IsErrorStatus(status) == status \in {"error: ...", "Error: ..."}

\* process_connections(input_file, output_file, connector, batch_size, 0,
\* max_requests) is called on a readable file with the LinkedIn Profile column and
\* without a note template
PC_Call(file, max) ==
    /\ connector.pc = "off"
    /\ connector' = [ConnectorOff EXCEPT !.pc = "batch", !.df = file,
                                         !.batch_size = conn_batch_size,
                                         !.max_requests = max]
    /\ UNCHANGED <<rlvars, dvars, fcall, cvars, scraper>>

\* mutant: the limit is noticed only once it has been passed
AtLimit_Passed(requests_sent, max_requests) == requests_sent > max_requests

\* if requests_sent >= max_requests
AtLimit(requests_sent, max_requests) == requests_sent >= max_requests

\* for i in range(start_row, total_rows, batch_size): the rows are exhausted, or the
\* limit is reached (both save and return df), or the next batch begins
PC_Batch ==
    /\ connector.pc = "batch"
    /\ connector' =
         IF connector.i >= Len(connector.df)
            \/ AtLimit(connector.requests_sent, connector.max_requests)
         THEN [connector EXCEPT !.pc = "done"]
         ELSE [connector EXCEPT !.pc = "row", !.j = connector.i,
                                !.batch_end = MinOf(connector.i + connector.batch_size,
                                                    Len(connector.df))]
    /\ UNCHANGED <<rlvars, dvars, fcall, cvars, scraper>>

\* the extended break at the head of a row's body
ErrorBreak(c) ==
    IF c.consecutive_errors >= max_consecutive_errors
    THEN [c EXCEPT !.consecutive_errors = 0, !.cooldowns = @ + 1]
    ELSE c

\* the bookkeeping after send_connection_request returned result or raised
Booked(c, result) ==
    LET j == c.j
        c1 == [c EXCEPT !.df[j + 1].status = result.status]
    IN IF result.kind = "raise"
       THEN [c1 EXCEPT !.consecutive_errors = @ + 1]
       ELSE IF result.success
       THEN [c1 EXCEPT !.requests_sent = IF result.status = "request_sent"
                                         THEN @ + 1 ELSE @,
                       !.consecutive_errors = 0]
       ELSE [c1 EXCEPT !.requests_failed = @ + 1,
                       !.consecutive_errors = IF IsErrorStatus(result.status)
                                              THEN @ + 1 ELSE @]

\* for j in range(i, batch_end): the batch is over, or the limit is reached (break),
\* or row j is skipped, or send_connection_request is called for it and booked
PC_Row(result) ==
    /\ connector.pc = "row"
    /\ LET j == connector.j
           c == ErrorBreak(connector)
       IN connector' =
            IF j >= connector.batch_end
               \/ AtLimit(connector.requests_sent, connector.max_requests)
            THEN [connector EXCEPT !.pc = "batch", !.i = @ + connector.batch_size]
            ELSE IF ~c.df[j + 1].url \/ c.df[j + 1].status # ""
            THEN [c EXCEPT !.j = j + 1]
            ELSE [Booked([c EXCEPT !.calls = @ + 1], result) EXCEPT !.j = j + 1]
    /\ UNCHANGED <<rlvars, dvars, fcall, cvars, scraper>>

PCNext ==
    \/ \E file \in ConnFiles, max \in 0..MaxRequests : PC_Call(file, max)
    \/ PC_Batch
    \/ \E result \in SendResults : PC_Row(result)

SpecPC == MTInit /\ [][PCNext]_vars

\* ------------------------------------------- claims on the connector's limit

\* C40: the number of connection requests sent never exceeds max_requests, and
\* once requests_sent has reached max_requests no further send_connection_request
\* call is made in that run
C40_RequestsWithinLimit ==
    [][ /\ connector'.requests_sent <= connector'.max_requests
        /\ (connector.pc # "off" /\ connector.requests_sent >= connector.max_requests)
              => connector'.calls = connector.calls ]_vars

\* a run that ended at its limit of at least one request, leaving a row with a
\* URL and no status
C40_Witness ==
    /\ connector.pc = "done"
    /\ connector.max_requests >= 1
    /\ connector.requests_sent = connector.max_requests
    /\ \E k \in 1..Len(connector.df) :
          connector.df[k].url /\ connector.df[k].status = ""

====
